---- MODULE Spec2Model ----
(***************************************************************************)
(* Model of the alert aggregation cache of src/services/alertsService.ts:  *)
(* the polling lifecycle (startAlertsPolling / stopAlertsPolling), the     *)
(* aggregation cycle fetchOnce with its three suspension points, the       *)
(* official-incident helper fetchVicIncidents, and the merge pipeline      *)
(* (expiry filter, dedup by clusterId, sort by expiresAt, publish).        *)
(*                                                                         *)
(* Execution model: JavaScript, one thread.  A trigger runs the            *)
(* synchronous prefix of fetchOnce (lines 160-164).  AbortController.abort *)
(* rejects the pending promise at once, but the awaiting cycle resumes     *)
(* only in a later microtask (queued[c] = TRUE until then); further        *)
(* triggers may run before that microtask, network completions (tasks)     *)
(* may not.                                                                *)
(***************************************************************************)
EXTENDS Integers, Sequences, FiniteSets, TLC

(* ------------------------------ bounds --------------------------------- *)
MaxCycles == 3          \* invocations of fetchOnce per behaviour
MaxNow    == 2          \* the clock (epoch seconds) runs over 1..MaxNow
MaxLen    == 2          \* longest backend list of the merge specification
MaxNotes  == 3          \* notifications of the risk card per behaviour

(* ------------------------- program constants --------------------------- *)
NEARBY_M == 250
VIC_TTL  == 1800        \* 30 * 60

Cycles == 1..MaxCycles

VARIABLES
  timer,          \* alertsService.ts:42  interval handle set?
  listening,      \* the four listeners of startAlertsPolling registered?
  inflight,       \* alertsService.ts:43  0 = null, else the controller's cycle
  visible,        \* document.visibilityState = "visible"
  coords,         \* localStorage "cs.coords" holds finite lat/lon
  weatherCache,   \* localStorage "cs.weather.alerts": a list, or Malformed
  now,            \* Math.floor(Date.now() / 1000)
  nStarted,       \* number of fetchOnce invocations so far
  signals,        \* number of triggers delivered while polling was started (observer)
  pc,             \* per invocation: the await it is suspended at
  aborted,        \* per controller: signal.aborted
  queued,         \* per invocation: its resumption is in the microtask queue
  vicSig,         \* per invocation: controller whose signal went to fetchVicIncidents
  backend,        \* per invocation: const backend (line 166)
  weather,        \* per invocation: let weather (lines 169-175)
  vic,            \* per invocation: const vic (line 178)
  feed,           \* per invocation: const feats (line 105) (observer)
  cacheList,      \* localStorage "cs.alerts.list"
  cacheTotal,     \* localStorage "cs.alerts.total"
  evtTotal,       \* detail.total of the last "cs:alerts" event
  cacheUpdatedAt, \* localStorage "cs.alerts.updatedAt"
  outcome,        \* per invocation: how it ended (observer)
  result,         \* per invocation: the list it published (observer)
  refNow,         \* per invocation: const now of line 181 (observer)
  pubLog,         \* invocations in the order they published (observer)
  racing,         \* per invocation: invocations awaiting a fetch when it started (observer)
  fails,          \* per invocation: the requests and bodies that failed (observer)
  intervals,      \* window: interval timers of the service that are live
  registered,     \* window: registrations of each listener of the service
  riskPc,         \* Home.tsx: per position, the await its fetchRisk is suspended at
  cardPc,         \* RiskHeaderCard.tsx: the await its fetchRisk is suspended at
  riskLevelState, \* RiskHeaderCard.tsx:48
  riskTextState,  \* RiskHeaderCard.tsx:49
  status,         \* RiskHeaderCard.tsx:50
  lastNotified,   \* RiskHeaderCard.tsx:57  lastNotifiedRef.current
  notified,       \* the severities triggerRiskAlert was called with, in order (observer)
  call,           \* the last call of a library function: name, arguments, result
  api             \* lib/api.ts: the pending call of a feed helper and how it settled

vars == << timer, listening, inflight, visible, coords, weatherCache, now,
           nStarted, signals, pc, aborted, queued, vicSig, backend, weather,
           vic, feed, cacheList, cacheTotal, evtTotal, cacheUpdatedAt, outcome,
           result, refNow, pubLog, racing, fails, intervals, registered, riskPc, cardPc,
           riskLevelState, riskTextState, status, lastNotified, notified,
           call, api >>

(* the variables of the pages *)
Card == << cardPc, riskLevelState, riskTextState, status, lastNotified, notified >>
Pages == << riskPc, Card >>

(* the variables of the library functions and of the pages, which the      *)
(* aggregation service leaves alone                                        *)
Lib == << call, api, Pages >>

(* ----------------------------- records --------------------------------- *)
(* An AlertLite is modelled by clusterId, expiresAt and src; src stands    *)
(* for all the other fields (it tells two records with one id apart).      *)
(* clusterId "#7" is the number 7 (String(7) = "7"); "" is an empty or     *)
(* missing clusterId.  expiresAt NoExp is a missing expiresAt.             *)
NoExp == -1

Rec(id, e, s) == [clusterId |-> id, expiresAt |-> e, src |-> s]

(* Number(a?.expiresAt || 0), lines 183, 194, 202 *)
Num(e) == IF e = NoExp THEN 0 ELSE e

(* String(a?.clusterId || ""), line 188 *)
Str(id) == IF id = "#7" THEN "7" ELSE id

(* an expiry filter that lets expiresAt = now through *)
FilterExpiredLax(s, t) == SelectSeq(s, LAMBDA a : Num(a.expiresAt) >= t)

(* lines 182-184: keep the records with expiresAt strictly after now *)
FilterExpired(s, t) == SelectSeq(s, LAMBDA a : Num(a.expiresAt) > t)

(* a last-writer-wins dedup *)
KeepLast(a, prev) == a

(* line 194: on a repeated id keep the larger expiresAt, the later on a tie *)
Keep(a, prev) == IF Num(a.expiresAt) >= Num(prev.expiresAt) THEN a ELSE prev

IndexOfKey(acc, k) ==
  IF \E i \in 1..Len(acc) : Str(acc[i].clusterId) = k
  THEN CHOOSE i \in 1..Len(acc) : Str(acc[i].clusterId) = k
  ELSE 0

(* a loop that never looks the id up *)
ById_setAlways(acc, a) == Append(acc, a)

(* lines 188-196: one iteration of the loop over mergedRaw; acc is the Map *)
(* byId as the sequence of its values in insertion order                   *)
ById_set(acc, a) ==
  LET k == Str(a.clusterId)
      i == IndexOfKey(acc, k)
  IN IF k = "" THEN acc
     ELSE IF i = 0 THEN Append(acc, a)
     ELSE [acc EXCEPT ![i] = Keep(a, acc[i])]

RECURSIVE DedupFrom(_, _)
DedupFrom(acc, s) ==
  IF s = << >> THEN acc ELSE DedupFrom(ById_set(acc, Head(s)), Tail(s))

(* lines 186-199 *)
Dedup(s) == DedupFrom(<< >>, s)

(* an insertion that puts a before the elements it ties with *)
InsertDescUnstable(s, a) ==
  LET before == SelectSeq(s, LAMBDA x : Num(x.expiresAt) > Num(a.expiresAt))
      after  == SelectSeq(s, LAMBDA x : Num(x.expiresAt) <= Num(a.expiresAt))
  IN before \o << a >> \o after

(* insertion of a into the sorted sequence s, after every element that does *)
(* not compare greater (the sort of line 202 is stable)                      *)
RECURSIVE InsertDesc(_, _)
InsertDesc(s, a) ==
  IF s = << >> THEN << a >>
  ELSE IF Num(Head(s).expiresAt) >= Num(a.expiresAt)
       THEN << Head(s) >> \o InsertDesc(Tail(s), a)
       ELSE << a >> \o s

RECURSIVE SortFrom(_, _)
SortFrom(acc, s) ==
  IF s = << >> THEN acc ELSE SortFrom(InsertDesc(acc, Head(s)), Tail(s))

(* the list left in the order of its first insertions *)
SortDescNone(s) == s

(* line 202: merged.sort((x, y) => y.expiresAt - x.expiresAt) *)
SortDesc(s) == SortFrom(<< >>, s)

(* lines 180-202: what a cycle publishes from the records it gathered *)
Merge(s, t) == SortDesc(Dedup(FilterExpired(s, t)))

(* --------------------- fetchVicIncidents, lines 105-150 ---------------- *)
(* A feature of the official feed: its id property ("" when it has none),  *)
(* its geometry type, the rounded first coordinate pair, its timestamp     *)
(* property ("" when it has none, "?" when no date can be read from it),   *)
(* its distance to the cached coordinates in metres (of the first          *)
(* coordinate pair; of a polygon, 0 when the outer ring contains the       *)
(* coordinates), and whether it has a name.                                *)
Feat(id, geom, pos, ts, d, named) ==
  [id |-> id, geom |-> geom, pos |-> pos, ts |-> ts, dist |-> d, named |-> named]

(* lines 112-120: Point gives coordinates, any other type coordinates[0];  *)
(* that is a coordinate pair for a LineString, but a ring or a polygon     *)
(* for Polygon and MultiPolygon, and Number of an array of two or more     *)
(* elements is NaN                                                         *)
HasPair(f) == f.geom \in {"Point", "LineString"}

(* lines 128-129, 134, 230-241: the first id property, else coordinates    *)
(* and time; toIso gives the time of the call when the feature has no      *)
(* timestamp property or one that is no date                               *)
VicId(f, t) ==
  IF f.id # "" THEN f.id
  ELSE f.pos \o "_" \o (IF f.ts \notin {"", "?"} THEN f.ts ELSE ToString(t))

(* a record that expires at the very second it is built *)
VicRecNoTtl(f, t) == Rec("vic#" \o VicId(f, t), t, "v")

(* lines 135-147: the record pushed for a feature that is kept *)
VicRec(f, t) == Rec("vic#" \o VicId(f, t), t + VIC_TTL, "v")

RECURSIVE Near(_, _)
(* the loop of lines 108-148 *)
Near(feats, t) ==
  IF feats = << >> THEN << >>
  ELSE LET f == Head(feats)
           rest == Near(Tail(feats), t)
       IN IF ~HasPair(f) \/ f.dist > NEARBY_M \/ ~f.named THEN rest
          ELSE << VicRec(f, t) >> \o rest

(* ------------------------------ the cache ------------------------------ *)
(* The key "cs.weather.alerts": kind "list" with the list it holds, kind   *)
(* "absent", kind "badjson" (no JSON), or kind "notlist" (JSON that is no  *)
(* list, with the records found inside it).                                *)
(* lines 169-175: the weather-derived list, empty unless the cache holds a *)
(* JSON list                                                               *)
ReadWeatherUnchecked == weatherCache.list

ReadWeather == IF weatherCache.kind = "list" THEN weatherCache.list ELSE << >>

(* invocation c is between its start and its end *)
Suspended(c) == pc[c] \in {"fetchList", "readBody", "fetchVic", "readVic", "vicNone"}

(* invocation c awaits a request or a body that carries an abort signal *)
OnNetwork(c) == pc[c] \in {"fetchList", "readBody", "fetchVic", "readVic"}

(* the controller whose signal the pending request of invocation c carries *)
SignalOf(c) == IF pc[c] \in {"fetchList", "readBody"} THEN c ELSE vicSig[c]

(* AbortController.abort(): every pending request that carries the signal  *)
(* of controller k is rejected; k = 0 (inflight is null) aborts nothing    *)
AbortedAfter(k) == [c \in Cycles |-> aborted[c] \/ c = k]
QueuedAfter(k) == [c \in Cycles |-> queued[c] \/ (k # 0 /\ OnNetwork(c) /\ SignalOf(c) = k)]

(* no resumption is waiting in the microtask queue *)
QueueEmpty == \A c \in Cycles : ~queued[c]

(* ------------------------------ fetchOnce ------------------------------ *)
(* a fetchOnce that does nothing while a cycle is in flight *)
BeginUnlessBusy ==
  IF inflight # 0
  THEN UNCHANGED << nStarted, aborted, queued, inflight, pc, racing, vicSig,
                    backend, weather, vic, feed, cacheList, cacheTotal,
                    evtTotal, cacheUpdatedAt, outcome, result, refNow, pubLog,
                    fails >>
  ELSE /\ nStarted < MaxCycles
       /\ nStarted' = nStarted + 1
       /\ pc' = [pc EXCEPT ![nStarted + 1] = "fetchList"]
       /\ inflight' = nStarted + 1
       /\ racing' = [racing EXCEPT ![nStarted + 1] = {d \in Cycles : OnNetwork(d)}]
       /\ UNCHANGED << aborted, queued, vicSig, backend, weather, vic, feed,
                       cacheList, cacheTotal, evtTotal, cacheUpdatedAt, outcome,
                       result, refNow, pubLog, fails >>

(* lines 158-164: the synchronous prefix of an invocation *)
Begin ==
  /\ nStarted < MaxCycles
  /\ LET c == nStarted + 1 IN
       /\ nStarted' = c
       /\ aborted' = AbortedAfter(inflight)
       /\ queued' = QueuedAfter(inflight)
       /\ inflight' = c
       /\ pc' = [pc EXCEPT ![c] = "fetchList"]
       /\ racing' = [racing EXCEPT ![c] = {d \in Cycles : OnNetwork(d)}]
  /\ UNCHANGED << vicSig, backend, weather, vic, feed, cacheList, cacheTotal, evtTotal,
                  cacheUpdatedAt, outcome, result, refNow, pubLog, fails >>

(* lines 211-216 without a publication: AbortError is ignored, any other   *)
(* error is logged; finally clears inflight                                *)
EndNoPublish(c, how) ==
  /\ pc' = [pc EXCEPT ![c] = "done"]
  /\ queued' = [queued EXCEPT ![c] = FALSE]
  /\ outcome' = [outcome EXCEPT ![c] = how]
  /\ inflight' = 0
  /\ UNCHANGED << cacheList, cacheTotal, evtTotal, cacheUpdatedAt, result, refNow, pubLog >>

(* lines 180-210 and 214-216: merge, write the three keys, notify, clear   *)
(* inflight                                                                *)
Publish(c, b, w, v) ==
  LET merged == Merge(b \o w \o v, now) IN
  /\ cacheList' = merged
  /\ cacheTotal' = Len(merged)
  /\ evtTotal' = Len(merged)
  /\ cacheUpdatedAt' = now
  /\ result' = [result EXCEPT ![c] = merged]
  /\ refNow' = [refNow EXCEPT ![c] = now]
  /\ pubLog' = Append(pubLog, c)
  /\ outcome' = [outcome EXCEPT ![c] = "published"]
  /\ pc' = [pc EXCEPT ![c] = "done"]
  /\ queued' = [queued EXCEPT ![c] = FALSE]
  /\ inflight' = 0

(* a fetchVicIncidents that requests the official feed without looking at  *)
(* the cached coordinates                                                  *)
AfterBackendAnywhere(c, data) ==
  /\ backend' = [backend EXCEPT ![c] = data]
  /\ weather' = [weather EXCEPT ![c] = ReadWeather]
  /\ IF inflight = 0
     THEN /\ EndNoPublish(c, "error")
          /\ UNCHANGED << vicSig, vic, feed >>
     ELSE /\ vicSig' = [vicSig EXCEPT ![c] = inflight]
          /\ UNCHANGED << vic, feed >>
          /\ pc' = [pc EXCEPT ![c] = "fetchVic"]
          /\ queued' = [queued EXCEPT ![c] = aborted[inflight]]
          /\ UNCHANGED << inflight, cacheList, cacheTotal, evtTotal, cacheUpdatedAt,
                          outcome, result, refNow, pubLog >>

(* lines 166-178: backend list known; read the weather cache; evaluate     *)
(* inflight.signal (a TypeError when inflight is null) and await           *)
(* fetchVicIncidents, which without cached coordinates has returned [] at  *)
(* line 98 (pc "vicNone": the await resumes in the next microtask)         *)
AfterBackend(c, data) ==
  /\ backend' = [backend EXCEPT ![c] = data]
  /\ weather' = [weather EXCEPT ![c] = ReadWeather]
  /\ IF inflight = 0
     THEN /\ EndNoPublish(c, "error")
          /\ UNCHANGED << vicSig, vic, feed >>
     ELSE /\ vicSig' = [vicSig EXCEPT ![c] = inflight]
          /\ UNCHANGED << vic, feed >>
          /\ pc' = [pc EXCEPT ![c] = IF coords THEN "fetchVic" ELSE "vicNone"]
          /\ queued' = [queued EXCEPT ![c] = ~coords \/ aborted[inflight]]
          /\ UNCHANGED << inflight, cacheList, cacheTotal, evtTotal, cacheUpdatedAt,
                          outcome, result, refNow, pubLog >>

(* fetchVicIncidents returned list v (lines 150, 153): line 178 resumes *)
AfterVic(c, v) ==
  /\ vic' = [vic EXCEPT ![c] = v]
  /\ Publish(c, backend[c], weather[c], v)
  /\ UNCHANGED << backend, weather, vicSig >>

Env == << timer, listening, intervals, registered, visible, coords, weatherCache, now >>
Started == << nStarted, signals, aborted, racing >>

Failed(c, what) == fails' = [fails EXCEPT ![c] = @ \cup {what}]

(* ------------------------------- triggers ------------------------------ *)
(* a stop that clears no interval *)
ClearIntervalNever(n) == n

(* line 70: if (timer) window.clearInterval(timer), on n live intervals *)
ClearInterval(n) == IF timer /\ n > 0 THEN n - 1 ELSE n

(* lines 73-76: removeEventListener takes the registration of the handler  *)
(* away, if there is one                                                   *)
RemoveListener(n) == IF n > 0 THEN n - 1 ELSE n

(* lines 60-63: addEventListener; a handler that is registered already     *)
(* (the handlers of lines 46-50 are the same functions at every call) is   *)
(* not registered again                                                    *)
AddListener(n) == IF n > 0 THEN n ELSE n + 1

(* lines 52-67 *)
startAlertsPolling ==
  /\ timer' = TRUE
  /\ listening' = TRUE
  /\ intervals' = ClearInterval(intervals) + 1
  /\ registered' = AddListener(RemoveListener(registered))
  /\ signals' = signals + 1
  /\ Begin
  /\ UNCHANGED << Lib, visible, coords, weatherCache, now >>

(* lines 69-82 *)
stopAlertsPolling ==
  /\ timer \/ listening \/ inflight # 0
  /\ timer' = FALSE
  /\ listening' = FALSE
  /\ intervals' = ClearInterval(intervals)
  /\ registered' = RemoveListener(registered)
  /\ aborted' = AbortedAfter(inflight)
  /\ queued' = QueuedAfter(inflight)
  /\ inflight' = 0
  /\ UNCHANGED << Lib, visible, coords, weatherCache, now, nStarted, signals, pc, vicSig,
                  backend, weather, vic, feed, cacheList, cacheTotal, evtTotal, cacheUpdatedAt,
                  outcome, result, refNow, pubLog, racing, fails >>

(* line 57: a tick of the interval timer (a task: the microtask queue is empty) *)
TimerTick ==
  /\ timer
  /\ QueueEmpty
  /\ signals' = signals + 1
  /\ Begin
  /\ UNCHANGED << Env, Lib >>

(* line 46: the "cs:alerts:maybeChanged" listener *)
onMaybeChanged ==
  /\ listening
  /\ signals' = signals + 1
  /\ Begin
  /\ UNCHANGED << Env, Lib >>

(* lines 48-50: the "focus" / "visibilitychange" listener *)
onVisible ==
  /\ listening
  /\ visible
  /\ signals' = signals + 1
  /\ Begin
  /\ UNCHANGED << Env, Lib >>

(* the document is hidden or shown; showing it dispatches visibilitychange *)
VisibilityChange ==
  /\ visible' = ~visible
  /\ IF listening /\ ~visible
     THEN signals' = signals + 1 /\ Begin
     ELSE UNCHANGED << signals, inflight, nStarted, pc, aborted, queued, vicSig, backend,
                       weather, vic, feed, cacheList, cacheTotal, evtTotal, cacheUpdatedAt,
                       outcome, result, refNow, pubLog, racing, fails >>
  /\ UNCHANGED << Lib, timer, listening, intervals, registered, coords, weatherCache, now >>

(* upsertWeatherAlert / removeWeatherAlert or any other writer of the key  *)
(* "cs.weather.alerts", followed by the "cs:weather:list" event (line 47)  *)
WeatherList(w) ==
  /\ weatherCache # w
  /\ weatherCache' = w
  /\ IF listening
     THEN signals' = signals + 1 /\ Begin
     ELSE UNCHANGED << signals, inflight, nStarted, pc, aborted, queued, vicSig, backend,
                       weather, vic, feed, cacheList, cacheTotal, evtTotal, cacheUpdatedAt,
                       outcome, result, refNow, pubLog, racing, fails >>
  /\ UNCHANGED << Lib, timer, listening, intervals, registered, visible, coords, now >>

(* the coordinate supplier writes or clears "cs.coords" *)
SetCoords ==
  /\ coords' = ~coords
  /\ UNCHANGED << Lib, timer, listening, intervals, registered, inflight, visible, weatherCache, now,
                  nStarted, signals, pc, aborted, queued, vicSig, backend, weather, vic, feed,
                  cacheList, cacheTotal, evtTotal, cacheUpdatedAt, outcome, result,
                  refNow, pubLog, racing, fails >>

(* AlertsPage.tsx lines 349-359: the alert page has rebuilt its own list   *)
(* (weather card, events, impact areas) of n entries; it writes n to       *)
(* "cs.alerts.total" and dispatches "cs:alerts", and leaves the key        *)
(* "cs.alerts.list" alone                                                  *)
PageRefresh(n) ==
  /\ cacheTotal' = n
  /\ evtTotal' = n
  /\ UNCHANGED << Lib, timer, listening, intervals, registered, inflight, visible, coords, weatherCache,
                  now, nStarted, signals, pc, aborted, queued, vicSig, backend,
                  weather, vic, feed, cacheList, cacheUpdatedAt, outcome,
                  result, refNow, pubLog, racing, fails >>

(* the clock advances by a second *)
Tick ==
  /\ now < MaxNow
  /\ now' = now + 1
  /\ UNCHANGED << Lib, timer, listening, intervals, registered, inflight, visible, coords, weatherCache,
                  nStarted, signals, pc, aborted, queued, vicSig, backend, weather, vic, feed,
                  cacheList, cacheTotal, evtTotal, cacheUpdatedAt, outcome, result,
                  refNow, pubLog, racing, fails >>

(* --------------------- network completions (tasks) --------------------- *)
Pending(c, at) == pc[c] = at /\ ~queued[c] /\ QueueEmpty

(* line 164: the backend answers (any HTTP status resolves the fetch) *)
ListResponse(c) ==
  /\ Pending(c, "fetchList")
  /\ pc' = [pc EXCEPT ![c] = "readBody"]
  /\ UNCHANGED << Env, Lib, Started, inflight, queued, vicSig, backend, weather, vic, feed,
                  cacheList, cacheTotal, evtTotal, cacheUpdatedAt, outcome, result,
                  refNow, pubLog, fails >>

(* line 164: the backend request is rejected by the network: the TypeError *)
(* is thrown out of the try block to line 211                              *)
ListNetworkError(c) ==
  /\ Pending(c, "fetchList")
  /\ EndNoPublish(c, "error")
  /\ Failed(c, "list")
  /\ UNCHANGED << Env, Lib, Started, vicSig, backend, weather, vic, feed >>

(* lines 165-166: the body parses to a payload whose alerts is data *)
ListBody(c, data) ==
  /\ Pending(c, "readBody")
  /\ AfterBackend(c, data)
  /\ UNCHANGED << Env, Lib, Started, fails >>

(* line 165: the body cannot be parsed, .catch gives { alerts: [] }; or    *)
(* line 166: it parses to something whose alerts is no array               *)
ListBodyBad(c) ==
  /\ Pending(c, "readBody")
  /\ AfterBackend(c, << >>)
  /\ Failed(c, "listBody")
  /\ UNCHANGED << Env, Lib, Started >>

(* lines 101-102: the official feed answers with an OK status *)
VicResponse(c) ==
  /\ Pending(c, "fetchVic")
  /\ pc' = [pc EXCEPT ![c] = "readVic"]
  /\ UNCHANGED << Env, Lib, Started, inflight, queued, vicSig, backend, weather, vic, feed,
                  cacheList, cacheTotal, evtTotal, cacheUpdatedAt, outcome, result,
                  refNow, pubLog, fails >>

(* a fetchVicIncidents without its try/catch: the failure aborts the cycle *)
VicFailThrows(c) ==
  /\ Pending(c, "fetchVic")
  /\ EndNoPublish(c, "error")
  /\ Failed(c, "vic")
  /\ UNCHANGED << Env, Lib, Started, vicSig, backend, weather, vic, feed >>

(* lines 101-102, 151-154: the official feed request is rejected by the    *)
(* network or answers with a non-OK status: caught, [] returned            *)
VicFail(c) ==
  /\ Pending(c, "fetchVic")
  /\ AfterVic(c, << >>)
  /\ Failed(c, "vic")
  /\ UNCHANGED << Env, Lib, Started, feed >>

(* lines 103-150: the body parses to a feature collection *)
VicBody(c, feats) ==
  /\ Pending(c, "readVic")
  /\ feed' = [feed EXCEPT ![c] = feats]
  /\ AfterVic(c, Near(feats, now))
  /\ UNCHANGED << Env, Lib, Started, fails >>

(* lines 103, 151-154: the body cannot be parsed: caught, [] returned *)
VicBodyBad(c) ==
  /\ Pending(c, "readVic")
  /\ AfterVic(c, << >>)
  /\ Failed(c, "vicBody")
  /\ UNCHANGED << Env, Lib, Started, feed >>

(* ------------------- resumption from the microtask queue --------------- *)
(* An await rejected by an abort resumes.  At line 164 the AbortError      *)
(* reaches line 212.  At line 165 it is swallowed by .catch and the cycle  *)
(* goes on with an empty backend list.  Inside fetchVicIncidents it is     *)
(* caught at line 151, [] is returned and the cycle goes on to publish.    *)
(* The await of a fetchVicIncidents that returned at line 98 resumes with  *)
(* [] as well.                                                             *)
Resume(c) ==
  /\ queued[c]
  /\ CASE pc[c] = "fetchList" ->
            /\ EndNoPublish(c, "cancelled")
            /\ UNCHANGED << vicSig, backend, weather, vic, feed >>
       [] pc[c] = "readBody" -> AfterBackend(c, << >>)
       [] pc[c] \in {"fetchVic", "readVic", "vicNone"} ->
            AfterVic(c, << >>) /\ UNCHANGED feed
  /\ UNCHANGED << Env, Lib, Started, fails >>

(* ------------------------------ the inputs ----------------------------- *)
Fresh == MaxNow + 1     \* an expiresAt no clock value of the model reaches

(* what the feeds and the weather cache may hold in the concurrent model *)
BackendFew == { << Rec("x", Fresh, "b"), Rec("y", 1, "b") >> }
WeatherFew == { [kind |-> "list", list |-> << >>],
                [kind |-> "list", list |-> << Rec("weather#c", Fresh, "w") >>] }
FeatsFew   == { << Feat("1", "Point", "p", "", 0, TRUE) >> }

(* the richer inputs of the first-cycle model *)
IdVals  == {"7", "#7", ""}
ExpVals == {NoExp} \cup (1..Fresh)
BackendRecs == {Rec(id, e, "b") : id \in IdVals, e \in ExpVals}

(* the positions Home asks the risk of, latitude and longitude in units of *)
(* 10^-4 degree: the fallback of line 38 (Melbourne), a position in the    *)
(* same cell of a thousandth of a degree and one just south-east of the    *)
(* origin                                                                  *)
Pos(lat, lon) == [lat |-> lat, lon |-> lon]
Positions == { Pos(-378136, 1449631), Pos(-378139, 1449638),
               Pos(-5, 5) }

(* every list of at most MaxLen backend records *)
BackendMany == UNION {[1..n -> BackendRecs] : n \in 0..MaxLen}
WeatherMany ==
  { [kind |-> "list", list |-> l] :
      l \in { << >>,
              << Rec("x", Fresh, "w") >>,
              << Rec("7", Fresh, "w"), Rec("x", 1, "w") >> } }
  \cup { [kind |-> "absent", list |-> << >>],
         [kind |-> "badjson", list |-> << >>],
         [kind |-> "notlist", list |-> << Rec("x", Fresh, "w") >>] }
FeatsMany ==
  { << >>,
    << Feat("1", "LineString", "p", "", NEARBY_M, TRUE) >>,
    << Feat("1", "Point", "p", "", 0, TRUE),
       Feat("1", "Point", "q", "", 0, TRUE),
       Feat("2", "Point", "p", "", NEARBY_M + 1, TRUE),
       Feat("3", "Point", "p", "", 0, FALSE),
       Feat("4", "Polygon", "p", "", 0, TRUE),
       Feat("5", "MultiPolygon", "p", "", 0, TRUE) >> }

(* the inputs of the model of successive cycles: features with and        *)
(* without an id property and a timestamp property                         *)
FeatsSeq ==
  { << Feat("1", "Point", "p", "", 0, TRUE),
       Feat("", "Point", "q", "", 0, TRUE),
       Feat("", "LineString", "r", "?", 0, TRUE) >>,
    << Feat("", "Point", "q", "t", 0, TRUE) >> }

(* the lengths the alert page's own list may have *)
PageTotals == 0..MaxLen

(* -------------------------- the specifications ------------------------- *)
Init ==
  /\ timer = FALSE
  /\ listening = FALSE
  /\ intervals = 0
  /\ registered = 0
  /\ inflight = 0
  /\ visible = TRUE
  /\ coords = TRUE
  /\ weatherCache = [kind |-> "list", list |-> << >>]
  /\ now = 1
  /\ nStarted = 0
  /\ signals = 0
  /\ pc = [c \in Cycles |-> "idle"]
  /\ aborted = [c \in Cycles |-> FALSE]
  /\ queued = [c \in Cycles |-> FALSE]
  /\ vicSig = [c \in Cycles |-> 0]
  /\ backend = [c \in Cycles |-> << >>]
  /\ weather = [c \in Cycles |-> << >>]
  /\ vic = [c \in Cycles |-> << >>]
  /\ feed = [c \in Cycles |-> << >>]
  /\ cacheList = << >>
  /\ cacheTotal = 0
  /\ evtTotal = 0
  /\ cacheUpdatedAt = 0
  /\ outcome = [c \in Cycles |-> "none"]
  /\ result = [c \in Cycles |-> << >>]
  /\ refNow = [c \in Cycles |-> 0]
  /\ pubLog = << >>
  /\ racing = [c \in Cycles |-> {}]
  /\ fails = [c \in Cycles |-> {}]
  /\ call = [fn |-> "none"]
  /\ api = [pc |-> "idle"]
  /\ riskPc = [p \in Positions |-> "idle"]
  /\ cardPc = "idle"
  /\ riskLevelState = 0
  /\ riskTextState = "LOW"
  /\ status = "Current risk level"
  /\ lastNotified = "none"
  /\ notified = << >>

(* any interleaving of triggers, completions and resumptions; the clock    *)
(* stands still here (every record the feeds give is unexpired), the merge *)
(* over time is the business of SpecFirst                                  *)
Next ==
  \/ startAlertsPolling
  \/ stopAlertsPolling
  \/ TimerTick
  \/ onMaybeChanged
  \/ onVisible
  \/ VisibilityChange
  \/ \E w \in WeatherFew : WeatherList(w)
  \/ SetCoords
  \/ \E c \in Cycles : ListResponse(c)
  \/ \E c \in Cycles : ListNetworkError(c)
  \/ \E c \in Cycles : pc[c] = "readBody" /\ \E d \in BackendFew : ListBody(c, d)
  \/ \E c \in Cycles : ListBodyBad(c)
  \/ \E c \in Cycles : VicResponse(c)
  \/ \E c \in Cycles : VicFail(c)
  \/ \E c \in Cycles : pc[c] = "readVic" /\ \E f \in FeatsFew : VicBody(c, f)
  \/ \E c \in Cycles : VicBodyBad(c)
  \/ \E c \in Cycles : Resume(c)

Spec == Init /\ [][Next]_vars

(* the first cycle after construction, with the richer inputs and a        *)
(* running clock: the weather cache and the coordinates are written, then  *)
(* polling starts (fetchOnce reads nothing a previous cycle wrote)         *)
NextFirst ==
  \/ nStarted = 0 /\ startAlertsPolling
  \/ nStarted = 0 /\ \E w \in WeatherMany : WeatherList(w)
  \/ nStarted = 0 /\ SetCoords
  \/ Tick
  \/ \E c \in Cycles : ListResponse(c)
  \/ \E c \in Cycles : ListNetworkError(c)
  \/ \E c \in Cycles : pc[c] = "readBody" /\ \E d \in BackendMany : ListBody(c, d)
  \/ \E c \in Cycles : ListBodyBad(c)
  \/ \E c \in Cycles : VicResponse(c)
  \/ \E c \in Cycles : VicFail(c)
  \/ \E c \in Cycles : pc[c] = "readVic" /\ \E f \in FeatsMany : VicBody(c, f)
  \/ \E c \in Cycles : VicBodyBad(c)
  \/ \E c \in Cycles : Resume(c)

SpecFirst == Init /\ [][NextFirst]_vars

(* the triggers in any order and at any time, whatever the running cycle   *)
(* is waiting for; every request of a cycle fails or is cut short, the     *)
(* data play no part                                                       *)
NextPoll ==
  \/ TimerTick
  \/ startAlertsPolling
  \/ stopAlertsPolling
  \/ onMaybeChanged
  \/ onVisible
  \/ VisibilityChange
  \/ \E w \in WeatherFew : WeatherList(w)
  \/ \E c \in Cycles : ListResponse(c)
  \/ \E c \in Cycles : ListBodyBad(c)
  \/ \E c \in Cycles : VicFail(c)
  \/ \E c \in Cycles : Resume(c)

SpecPoll == Init /\ [][NextPoll]_vars

(* no invocation of fetchOnce is between its start and its end *)
Quiet == \A c \in Cycles : pc[c] \in {"idle", "done"}

(* polling is started once and the timer starts each further cycle when    *)
(* the last has ended; the clock runs and the alert page refreshes in      *)
(* between                                                                 *)
NextSeq ==
  \/ nStarted = 0 /\ startAlertsPolling
  \/ Quiet /\ TimerTick
  \/ Tick
  \/ \E n \in PageTotals : PageRefresh(n)
  \/ \E c \in Cycles : ListResponse(c)
  \/ \E c \in Cycles : pc[c] = "readBody" /\ \E d \in BackendFew : ListBody(c, d)
  \/ \E c \in Cycles : VicResponse(c)
  \/ \E c \in Cycles : pc[c] = "readVic" /\ \E f \in FeatsSeq : VicBody(c, f)

SpecSeq == Init /\ [][NextSeq]_vars

(* ======================= lib/RiskMatrix.ts ============================= *)
DENOM == 172115
Unset == 0              \* an optional code that is not given (undefined)

Hours == 0..23
WeatherCodes == {1, 2, 3, 4, 5, 6, 7, 9}
SurfaceCodes == {1, 2, 3, 4, 5, 9}

(* Context without its position: the distance of every historical record   *)
(* to (ctx.lat, ctx.lon) is a field of the record                          *)
Ctx(hour, month, dow, wx, surf) ==
  [hour |-> hour, month |-> month, dow |-> dow, weatherCode |-> wx,
   roadSurfaceCode |-> surf]

(* n equal rows of data.accidents: their Accident_No, whether LAT and LON  *)
(* are finite, haversineM(ctx.lat, ctx.lon, LAT, LON) in metres, and the   *)
(* three time fields                                                       *)
AccidentRow(no, finite, d, hour, month, dow, n) ==
  [Accident_No |-> no, finite |-> finite, dist |-> d, Accident_hour |-> hour,
   Accident_month |-> month, DAY_OF_WEEK |-> dow, copies |-> n]

(* a row of data.atmosphere or data.surface *)
CondRow(no, cond) == [Accident_No |-> no, cond |-> cond]

(* lines 36-40, 50, 53: Map.set in list order (the last row of a number    *)
(* wins), Map.get (Unset when the number has no row)                       *)
IndexGet(rows, no) ==
  LET hits == {i \in 1..Len(rows) : rows[i].Accident_No = no}
  IN IF hits = {} THEN Unset
     ELSE rows[CHOOSE i \in hits : \A j \in hits : j <= i].cond

(* a within for which a missing atmosphere or surface code disqualifies *)
withinJoined(ctx, data, acc) ==
  /\ acc.finite
  /\ acc.dist <= 250
  /\ acc.Accident_hour = ctx.hour
  /\ acc.Accident_month = ctx.month
  /\ acc.DAY_OF_WEEK = ctx.dow
  /\ IndexGet(data.atmosphere, acc.Accident_No) = ctx.weatherCode
  /\ IndexGet(data.surface, acc.Accident_No) = ctx.roadSurfaceCode

(* a within that leaves out the record at the very radius and the test of  *)
(* the month                                                               *)
withinLoose(ctx, data, acc) ==
  /\ acc.dist < 250
  /\ acc.Accident_hour = ctx.hour
  /\ acc.DAY_OF_WEEK = ctx.dow

(* lines 42-57 *)
within(ctx, data, acc) ==
  LET atmos == IndexGet(data.atmosphere, acc.Accident_No)
      surf  == IndexGet(data.surface, acc.Accident_No)
  IN /\ acc.finite
     /\ ~(acc.dist > 250)
     /\ acc.Accident_hour = ctx.hour
     /\ acc.Accident_month = ctx.month
     /\ acc.DAY_OF_WEEK = ctx.dow
     /\ ~(ctx.weatherCode # Unset /\ atmos # Unset /\ atmos # ctx.weatherCode)
     /\ ~(ctx.roadSurfaceCode # Unset /\ surf # Unset /\ surf # ctx.roadSurfaceCode)

RECURSIVE CountWithin(_, _, _)
(* line 59: data.accidents.filter(within).length *)
CountWithin(ctx, data, rows) ==
  IF rows = << >> THEN 0
  ELSE (IF within(ctx, data, Head(rows)) THEN Head(rows).copies ELSE 0)
       + CountWithin(ctx, data, Tail(rows))

matched(ctx, data) == CountWithin(ctx, data, data.accidents)

(* a heuristic whose late band starts after 18 and ends before 6 *)
weatherHeuristicOpen(code, hour) ==
  IF code = 7 THEN "HIGH"
  ELSE IF code = 2 THEN (IF hour > 18 \/ hour < 6 THEN "HIGH" ELSE "MED")
  ELSE "LOW"

(* lines 81-85 *)
weatherHeuristic(code, hour) ==
  IF code = 7 THEN "HIGH"
  ELSE IF code = 2 THEN (IF hour >= 18 \/ hour <= 6 THEN "HIGH" ELSE "MED")
  ELSE "LOW"

(* a categorize with the thresholds 0.01 and 0.02 *)
categorizePercent(m, den) ==
  IF m * 100 < den THEN "LOW"
  ELSE IF m * 100 < 2 * den THEN "MED"
  ELSE "HIGH"

(* a categorize that gives HIGH below 0.002 and MED from there on *)
categorizeSwapped(m, den) ==
  IF m * 1000 < den THEN "LOW"
  ELSE IF m * 1000 < 2 * den THEN "HIGH"
  ELSE "MED"

(* lines 60, 86-90: categorize(m / den).  The quotient of two integers is  *)
(* below 0.001 exactly when m * 1000 < den; the double nearest to m / den  *)
(* is on the same side of the doubles 0.001 and 0.002, for no m / 172115   *)
(* is within a rounding error of either threshold                          *)
categorize(m, den) ==
  IF m * 1000 < den THEN "LOW"
  ELSE IF m * 1000 < 2 * den THEN "MED"
  ELSE "HIGH"

(* the second argument of computeRiskLevel: undefined, or the three tables *)
NoData == [kind |-> "absent", accidents |-> << >>, atmosphere |-> << >>,
           surface |-> << >>]
Data(acc, atm, surf) ==
  [kind |-> "data", accidents |-> acc, atmosphere |-> atm, surface |-> surf]

(* lines 20-63 (riskLevel of the result) *)
computeRiskLevel(ctx, data) ==
  IF data.kind = "absent" \/ Len(data.accidents) = 0
  THEN weatherHeuristic(ctx.weatherCode, ctx.hour)
  ELSE categorize(matched(ctx, data), DENOM)

(* --------------------- numbers of pages/AlertsPage.tsx ------------------ *)
(* A number is a binary floating-point value: a significand of FloatBits   *)
(* bits (53 in the program) and an exponent that goes down to -FracBits.   *)
(* It is held as an integer count of units of 2^-FracBits; every           *)
(* arithmetic operation rounds its exact result to the nearest number,     *)
(* ties to the even significand.                                           *)
FloatBits == 4
FracBits == 14
One == 2^FracBits

(* the coordinates given to the functions are multiples of Step, so that   *)
(* the product of two of them is a whole number of units and every         *)
(* rounding is one of the significand                                      *)
Step == 2^((FracBits + 1) \div 2)

Abs(n) == IF n < 0 THEN -n ELSE n

RECURSIVE UlpOf(_, _)
(* the spacing of the numbers around magnitude m, from spacing q upwards *)
UlpOf(m, q) == IF m < q * 2^FloatBits THEN q ELSE UlpOf(m, 2 * q)

(* n / d (d > 0) to the nearest integer, ties to even *)
RoundDiv(n, d) ==
  LET q == n \div d
      r == n % d
  IN IF 2 * r > d \/ (2 * r = d /\ q % 2 = 1) THEN q + 1 ELSE q

(* the number nearest to the exact quotient n / d of two unit counts *)
Fl(n, d) ==
  LET nn == IF d < 0 THEN -n ELSE n
      dd == Abs(d)
      k  == UlpOf(Abs(nn) \div dd, 1)
  IN RoundDiv(nn, dd * k) * k

FSub(a, b) == Fl(a - b, 1)
FAdd(a, b) == Fl(a + b, 1)
(* the product and the quotient of two numbers; a whole operand is taken   *)
(* in ones, which leaves the value alone and keeps the counts small        *)
FMul(a, b) ==
  IF a % One = 0 THEN Fl((a \div One) * b, 1)
  ELSE IF b % One = 0 THEN Fl(a * (b \div One), 1)
  ELSE Fl(a * b, One)
FDiv(a, b) ==
  IF b % One = 0 THEN Fl(a, b \div One) ELSE Fl(a * One, b)

(* ------------------- geometry of pages/AlertsPage.tsx ------------------- *)
(* A position of a ring is a GeoJSON pair << lon, lat >>.                  *)

(* line 112: the two ends of the edge lie on different sides of lon *)
Straddles(yi, yj, lon) == (yi > lon) # (yj > lon)

(* a test that takes every crossing of the line through the query, on      *)
(* either side of it                                                       *)
BelowAny(lat, x) == TRUE

(* line 113: the query lies before the place where the edge crosses *)
Below(lat, x) == lat < x

RECURSIVE PipFrom(_, _, _, _, _)
(* lines 109-116, from index i on (the ring's positions are 1..Len):       *)
(* j is the index before i, the last one for the first                     *)
PipFrom(lat, lon, polygon, i, inside) ==
  IF i > Len(polygon) THEN inside
  ELSE LET j  == IF i = 1 THEN Len(polygon) ELSE i - 1
           xi == polygon[i][2]
           yi == polygon[i][1]
           xj == polygon[j][2]
           yj == polygon[j][1]
           intersect ==
             /\ Straddles(yi, yj, lon)
             /\ Below(lat, FAdd(FDiv(FMul(FSub(xj, xi), FSub(lon, yi)),
                                      FSub(yj, yi)), xi))
       IN PipFrom(lat, lon, polygon, i + 1, IF intersect THEN ~inside ELSE inside)

(* lines 107-118 *)
pointInsidePolygon(lat, lon, polygon) == PipFrom(lat, lon, polygon, 1, FALSE)

(* ------------------------ great-circle distance ------------------------- *)
(* The trigonometric functions are taken at the angles that are multiples  *)
(* of 60 degrees, where 4 sin^2(d/2) and 2 cos(d) are whole numbers; a     *)
(* distance is a whole number of metres.                                   *)
Sixty == 60 * One

(* 4 * Math.sin(toRad(d) / 2) ** 2 *)
SinSqHalf4(d) ==
  LET k == (d \div Sixty) % 6
  IN CASE k = 0 -> 0
       [] k \in {1, 5} -> 1
       [] k \in {2, 4} -> 3
       [] k = 3 -> 4

(* 2 * Math.cos(toRad(d)) *)
Cos2(d) ==
  LET k == (d \div Sixty) % 6
  IN CASE k = 0 -> 2
       [] k \in {1, 5} -> 1
       [] k \in {2, 4} -> -1
       [] k = 3 -> -2

(* R * 2 * Math.atan2(Math.sqrt(a), Math.sqrt(1 - a)) for a = a16 / 16 and *)
(* R = 6371000, to the nearest metre                                       *)
MetresOf(a16) ==
  IF a16 = 0 THEN 0
  ELSE << 3219652, 4604540, 5706280, 6671696, 7558552, 8397717, 9209080,
          10007543, 10806007, 11617369, 12456535, 13343391, 14308806,
          15410547, 16795435, 20015087 >>[a16]

(* a distance that takes the latitude of the first point for both *)
distanceMetersOneSided(lat1, lon1, lat2, lon2) ==
  LET dLat == FSub(lat2, lat1)
      dLon == FSub(lon2, lon1)
  IN MetresOf(4 * SinSqHalf4(dLat) + Cos2(lat1) * Cos2(lat1) * SinSqHalf4(dLon))

(* services/alertsService.ts lines 244-255 *)
distanceMeters(lat1, lon1, lat2, lon2) ==
  LET dLat == FSub(lat2, lat1)
      dLon == FSub(lon2, lon1)
  IN MetresOf(4 * SinSqHalf4(dLat) + Cos2(lat1) * Cos2(lat2) * SinSqHalf4(dLon))

(* pages/AlertsPage.tsx lines 97-106, lib/RiskMatrix.ts lines 91-100 *)
haversineM(lat1, lon1, lat2, lon2) ==
  LET dLat == FSub(lat2, lat1)
      dLon == FSub(lon2, lon1)
      a16  == 4 * SinSqHalf4(dLat) + Cos2(lat1) * Cos2(lat2) * SinSqHalf4(dLon)
  IN MetresOf(a16)

(* the number Infinity: above every distance *)
Infinity == 2^30

RECURSIVE MinFrom(_, _, _, _, _)
(* lines 122-125: for (const [lng, latp] of ring), from position i on *)
MinFrom(lat, lon, ring, i, min) ==
  IF i > Len(ring) THEN min
  ELSE LET d == haversineM(lat, lon, ring[i][2], ring[i][1])
       IN MinFrom(lat, lon, ring, i + 1, IF d < min THEN d ELSE min)

(* lines 119-127 *)
minDistanceToRingM(lat, lon, ring) == MinFrom(lat, lon, ring, 1, Infinity)

(* a distance that stands outside the polygon when the point is in a hole *)
pointToPolygonDistanceMHoles(lat, lon, polyCoords) ==
  LET outer == IF Len(polyCoords) = 0 THEN << >> ELSE polyCoords[1]
      holes == {i \in 2..Len(polyCoords) : pointInsidePolygon(lat, lon, polyCoords[i])}
  IN IF ~pointInsidePolygon(lat, lon, outer) THEN minDistanceToRingM(lat, lon, outer)
     ELSE IF holes = {} THEN 0
     ELSE minDistanceToRingM(lat, lon, polyCoords[CHOOSE i \in holes : TRUE])

(* lines 128-133, polyCoords being the parameter coords: outer is          *)
(* coords[0] || []                                                         *)
pointToPolygonDistanceM(lat, lon, polyCoords) ==
  LET outer == IF Len(polyCoords) = 0 THEN << >> ELSE polyCoords[1]
  IN IF pointInsidePolygon(lat, lon, outer) THEN 0
     ELSE minDistanceToRingM(lat, lon, outer)

(* a distance that is the one to the last polygon *)
pointToMultiPolygonDistanceMLast(lat, lon, mp) ==
  IF Len(mp) = 0 THEN Infinity
  ELSE pointToPolygonDistanceM(lat, lon, mp[Len(mp)])

RECURSIVE MultiFrom(_, _, _, _, _)
(* lines 136-139: for (const poly of mp), from polygon i on *)
MultiFrom(lat, lon, mp, i, min) ==
  IF i > Len(mp) THEN min
  ELSE LET d == pointToPolygonDistanceM(lat, lon, mp[i])
       IN MultiFrom(lat, lon, mp, i + 1, IF d < min THEN d ELSE min)

(* lines 134-141 *)
pointToMultiPolygonDistanceM(lat, lon, mp) == MultiFrom(lat, lon, mp, 1, Infinity)

(* a geometry of a feature of the impact-area feed *)
Geom(type, coordinates) == [type |-> type, coordinates |-> coordinates]

(* fetchVicImpactAreas lines 242-249: the distance of the feature, Infinity *)
(* for a geometry that is neither a Polygon nor a MultiPolygon             *)
ImpactDistM(lat, lon, g) ==
  IF g.type = "Polygon" THEN pointToPolygonDistanceM(lat, lon, g.coordinates)
  ELSE IF g.type = "MultiPolygon"
       THEN pointToMultiPolygonDistanceM(lat, lon, g.coordinates)
  ELSE Infinity

(* lines 242-250: the feature passes the geofence and becomes an item *)
ImpactKept(lat, lon, g) ==
  /\ g.type \in {"Polygon", "MultiPolygon"}
  /\ ~(ImpactDistM(lat, lon, g) > NEARBY_M)

(* ------------------- the calls of the library functions ---------------- *)
(* the variables of the aggregation service and of the pages, which a      *)
(* library call leaves alone                                               *)
Service == << timer, listening, intervals, registered, inflight, visible, coords, weatherCache, now,
              nStarted, signals, pc, aborted, queued, vicSig, backend, weather,
              vic, feed, cacheList, cacheTotal, evtTotal, cacheUpdatedAt,
              outcome, result, refNow, pubLog, racing, fails, Pages >>

(* line 31: the datasets that send computeRiskLevel to the heuristic *)
DataNone == {NoData, Data(<< >>, << >>, << >>)}

(* no call of a library function or of a feed helper is under way; the    *)
(* calls are taken one at a time, none reads what another leaves          *)
Idle == call.fn = "none" /\ api.pc = "idle"

(* the caller takes the value of the last call; the next call can follow *)
Return ==
  /\ call.fn # "none"
  /\ call' = [fn |-> "none"]
  /\ UNCHANGED << Service, api >>

(* ---------------------- feed helpers of lib/api.ts ---------------------- *)
(* api.ts lines 22-31, 32-41: getVicEvents or getVicImpactAreas is called; *)
(* fetchJSON (lines 5-8) arms its timer, listens to the caller's signal    *)
(* and starts the fetch                                                    *)
GetVic(fn) ==
  /\ Idle
  /\ api' = [pc |-> "fetching", fn |-> fn]
  /\ UNCHANGED << Service, call >>

(* the promise of the helper settles: lines 25, 35 for a value j of        *)
(* fetchJSON, lines 26-29, 36-39 for an error of the given name            *)
Resolved(features) == [pc |-> "resolved", fn |-> api.fn, out |-> features]
Caught(name) ==
  IF name = "AbortError" THEN [pc |-> "resolved", fn |-> api.fn, out |-> << >>]
  ELSE [pc |-> "rejected", fn |-> api.fn, err |-> name]

(* line 11: fetch rejects (no network, DNS, CORS): a TypeError *)
ApiNetworkError ==
  /\ api.pc = "fetching"
  /\ api' = Caught("TypeError")
  /\ UNCHANGED << Service, call >>

(* lines 11-12: the response arrives; if (!res.ok) throw new Error(...) *)
ApiResponse(ok) ==
  /\ api.pc = "fetching"
  /\ api' = IF ok THEN [pc |-> "body", fn |-> api.fn] ELSE Caught("Error")
  /\ UNCHANGED << Service, call >>

(* line 13, lines 25, 35: the body parses to j; the features if they are   *)
(* an array, the empty list otherwise                                      *)
ApiBody(j) ==
  /\ api.pc = "body"
  /\ api' = Resolved(IF j.kind = "list" THEN j.features ELSE << >>)
  /\ UNCHANGED << Service, call >>

(* line 13: res.json() rejects on a body that is no JSON: a SyntaxError *)
ApiBodyBad ==
  /\ api.pc = "body"
  /\ api' = Caught("SyntaxError")
  /\ UNCHANGED << Service, call >>

(* line 7: the timer of timeoutMs fires; controller.abort with a           *)
(* DOMException named AbortError, with which the fetch or the reading of   *)
(* the body rejects                                                        *)
ApiTimeout ==
  /\ api.pc \in {"fetching", "body"}
  /\ api' = Caught("AbortError")
  /\ UNCHANGED << Service, call >>

(* line 8: the caller aborts its signal; controller.abort(signal.reason),  *)
(* by default a DOMException named AbortError, else the caller's reason    *)
ApiCancel(reason) ==
  /\ api.pc \in {"fetching", "body"}
  /\ api' = Caught(reason)
  /\ UNCHANGED << Service, call >>

(* the caller takes the outcome of the helper *)
ApiSettled ==
  /\ api.pc \in {"resolved", "rejected"}
  /\ api' = [pc |-> "idle"]
  /\ UNCHANGED << Service, call >>

(* the bodies of a feed: a feature collection, an object without features *)
Bodies == { [kind |-> "list", features |-> << >>],
            [kind |-> "list", features |-> << "f1", "f2" >>],
            [kind |-> "other"] }

(* computeRiskLevel(ctx, data) is called and returns *)
Score(ctx, data) ==
  /\ Idle
  /\ call' = IF data \in DataNone
             THEN [fn |-> "computeRiskLevel", ctx |-> ctx, data |-> data,
                   out |-> computeRiskLevel(ctx, data)]
             ELSE [fn |-> "computeRiskLevel", ctx |-> ctx, data |-> data,
                   counted |-> [i \in 1..Len(data.accidents) |->
                                  within(ctx, data, data.accidents[i])],
                   matched |-> matched(ctx, data),
                   out |-> computeRiskLevel(ctx, data)]
  /\ UNCHANGED << Service, api >>

(* the contexts and the datasets of the calls of computeRiskLevel: every   *)
(* weather code at every hour without a dataset; with a dataset, one       *)
(* record in 1 to 345 copies that matches hour 8 of a Tuesday in March     *)
(* at the context's position, and a second record that differs from it in  *)
(* one respect                                                             *)
CtxAnyHour == {Ctx(h, 3, 2, wx, Unset) : h \in Hours, wx \in WeatherCodes \cup {Unset}}
CtxFew == {Ctx(8, 3, 2, wx, sf) : wx \in {Unset, 1, 2}, sf \in {Unset, 1}}
Copies == {1, 172, 173, 200, 344, 345}
RowA(n) == AccidentRow("A", TRUE, 0, 8, 3, 2, n)
RowsB == { AccidentRow("B", TRUE, 250, 8, 3, 2, 1),
           AccidentRow("B", TRUE, 251, 8, 3, 2, 1),
           AccidentRow("B", FALSE, 0, 8, 3, 2, 1),
           AccidentRow("B", TRUE, 0, 9, 3, 2, 1),
           AccidentRow("B", TRUE, 0, 8, 4, 2, 1),
           AccidentRow("B", TRUE, 0, 8, 3, 1, 1) }
AccLists == {<< RowA(n) >> : n \in Copies}
            \cup {<< RowA(n), b >> : n \in Copies, b \in RowsB}
AtmTables == { << >>,
               << CondRow("A", 1) >>,
               << CondRow("B", 2) >>,
               << CondRow("A", 2), CondRow("B", 2) >>,
               << CondRow("A", 2), CondRow("A", 1) >> }
SurfTables == { << >>, << CondRow("A", 1) >>, << CondRow("B", 2) >> }
DataFew == {Data(a, t, f) : a \in AccLists, t \in AtmTables, f \in SurfTables}

(* pointInsidePolygon(lat, lon, polygon) is called and returns *)
PointInside(lat, lon, polygon) ==
  /\ Idle
  /\ call' = [fn |-> "pointInsidePolygon", lat |-> lat, lon |-> lon,
              polygon |-> polygon, out |-> pointInsidePolygon(lat, lon, polygon)]
  /\ UNCHANGED << Service, api >>

(* the rings and the query coordinates of the calls of pointInsidePolygon: *)
(* the unit square, and every ring of no, one or two positions over four   *)
(* coordinates, two of them next to each other at a sixteenth (8/128 and   *)
(* 9/128)                                                                  *)
Square == << << 0, 0 >>, << 0, One >>, << One, One >>, << One, 0 >> >>
RingCoords == {0, 8 * Step, 9 * Step, One}
RingPositions == RingCoords \X RingCoords
SmallRings == {<< >>} \cup {<< p >> : p \in RingPositions}
              \cup {<< p, q >> : p, q \in RingPositions}
QueryCoords == RingCoords \cup {One \div 2, 5 * One}

(* distanceMeters or haversineM is called and returns *)
Distance(fn, lat1, lon1, lat2, lon2) ==
  /\ Idle
  /\ call' = [fn |-> fn, lat1 |-> lat1, lon1 |-> lon1, lat2 |-> lat2,
              lon2 |-> lon2,
              out |-> IF fn = "distanceMeters"
                      THEN distanceMeters(lat1, lon1, lat2, lon2)
                      ELSE haversineM(lat1, lon1, lat2, lon2)]
  /\ UNCHANGED << Service, api >>

(* pointToPolygonDistanceM(lat, lon, polyCoords) is called and returns *)
PolygonDistance(lat, lon, polyCoords) ==
  /\ Idle
  /\ call' = [fn |-> "pointToPolygonDistanceM", lat |-> lat, lon |-> lon,
              coords |-> polyCoords,
              out |-> pointToPolygonDistanceM(lat, lon, polyCoords)]
  /\ UNCHANGED << Service, api >>

(* pointToMultiPolygonDistanceM(lat, lon, mp) is called and returns *)
MultiPolygonDistance(lat, lon, mp) ==
  /\ Idle
  /\ call' = [fn |-> "pointToMultiPolygonDistanceM", lat |-> lat, lon |-> lon,
              mp |-> mp, out |-> pointToMultiPolygonDistanceM(lat, lon, mp)]
  /\ UNCHANGED << Service, api >>

(* one turn of the loop of fetchVicImpactAreas over a feature of geometry g *)
ImpactArea(lat, lon, g) ==
  /\ Idle
  /\ call' = [fn |-> "fetchVicImpactAreas", lat |-> lat, lon |-> lon, g |-> g,
              distM |-> ImpactDistM(lat, lon, g),
              out |-> IF ImpactKept(lat, lon, g) THEN "item" ELSE "skipped"]
  /\ UNCHANGED << Service, api >>

(* the positions of the calls of the distance functions, in degrees: three *)
(* latitudes and three longitudes 60 apart; a box with one position of     *)
(* the grid inside it, a diamond around the same position, an empty ring;  *)
(* polygons of up to two rings and multipolygons of up to two polygons     *)
GridLat == {-Sixty, 0, Sixty}
GridLon == {0, Sixty, 2 * Sixty}
Box == << << 0, -Sixty >>, << 2 * Sixty, -Sixty >>, << 2 * Sixty, Sixty >>,
          << 0, Sixty >> >>
Diamond == << << 0, 0 >>, << Sixty, Sixty >>, << 2 * Sixty, 0 >>,
              << Sixty, -Sixty >> >>
Rings == {<< >>, Box, Diamond}
Polygons == {<< >>} \cup {<< r >> : r \in Rings}
            \cup {<< r, h >> : r, h \in Rings}
MultiPolygons == {<< >>} \cup {<< q >> : q \in Polygons}
                 \cup {<< q, r >> : q, r \in Polygons}
Geoms == {Geom("Polygon", c) : c \in Polygons}
         \cup {Geom("MultiPolygon", c) : c \in MultiPolygons}
         \cup {Geom("Point", << Sixty, 0 >>)}

(* the library functions called in any order with the inputs above *)
NextLib ==
  \/ Idle /\ \E ctx \in CtxAnyHour, d \in DataNone : Score(ctx, d)
  \/ Idle /\ \E ctx \in CtxFew, d \in DataFew : Score(ctx, d)
  \/ Idle /\ \E lat, lon \in QueryCoords, ring \in SmallRings \cup {Square} :
               PointInside(lat, lon, ring)
  \/ Idle /\ \E fn \in {"distanceMeters", "haversineM"}, lat1, lat2 \in GridLat,
                lon1, lon2 \in GridLon : Distance(fn, lat1, lon1, lat2, lon2)
  \/ Idle /\ \E lat \in GridLat, lon \in GridLon, polyCoords \in Polygons :
               PolygonDistance(lat, lon, polyCoords)
  \/ Idle /\ \E lat \in GridLat, lon \in GridLon, mp \in MultiPolygons :
               MultiPolygonDistance(lat, lon, mp)
  \/ Idle /\ \E lat \in GridLat, lon \in GridLon, g \in Geoms :
               ImpactArea(lat, lon, g)
  \/ Return
  \/ \E fn \in {"getVicEvents", "getVicImpactAreas"} : GetVic(fn)
  \/ ApiNetworkError
  \/ \E ok \in BOOLEAN : ApiResponse(ok)
  \/ \E j \in Bodies : ApiBody(j)
  \/ ApiBodyBad
  \/ ApiTimeout
  \/ \E reason \in {"AbortError", "Error"} : ApiCancel(reason)
  \/ ApiSettled

SpecLib == Init /\ [][NextLib]_vars

(* ============================ pages/Home.tsx =========================== *)
(* A WeatherAlert: clusterId, severity and expiresAt; src "w" stands for    *)
(* the fields every weather alert has alike.                               *)
WeatherAlert(id, sev, e) ==
  [clusterId |-> id, expiresAt |-> e, src |-> "w", severity |-> sev]

(* the last decimal digit of n *)
Digit(n) == ToString(n % 10)

(* (k / 1000).toFixed(3) *)
toFixed3(k) ==
  (IF k < 0 THEN "-" ELSE "") \o ToString(Abs(k) \div 1000) \o "."
    \o Digit(Abs(k) \div 100) \o Digit(Abs(k) \div 10) \o Digit(Abs(k))

(* lines 54-59: roundCell(lat, lon, 3).  Math.floor(lat * 1000) of a        *)
(* latitude of lat units of 10^-4 degree is the floor of lat / 10 (\div     *)
(* rounds down, as Math.floor does); dividing by 1000 and toFixed(3) print  *)
(* that number of thousandths.  The product lat * 1000 is a double: it is   *)
(* on the same side of every integer as the exact product unless the       *)
(* position is within a rounding error of a multiple of 0.001, and the     *)
(* positions of the model are not                                          *)
roundCell(lat, lon) == toFixed3(lat \div 10) \o "_" \o toFixed3(lon \div 10)

(* lines 62-63, 71-72: the list the helpers work on: [] when the key is    *)
(* absent or holds no JSON (catch); JSON that is no list is taken as it is *)
(* and the findIndex or filter that follows throws a TypeError             *)
StoredIsList == weatherCache.kind # "notlist"
StoredList == IF weatherCache.kind = "list" THEN weatherCache.list ELSE << >>

(* line 64: list.findIndex(x => x.clusterId === id), 0 for -1 *)
FindIndex(list, id) ==
  IF \E i \in 1..Len(list) : list[i].clusterId = id
  THEN CHOOSE i \in 1..Len(list) :
         /\ list[i].clusterId = id
         /\ \A j \in 1..(i - 1) : list[j].clusterId # id
  ELSE 0

(* an upsert that always pushes *)
UpsertedPush(list, a) == Append(list, a)

(* lines 64-65 *)
Upserted(list, a) ==
  IF FindIndex(list, a.clusterId) = 0
  THEN Append(list, a)
  ELSE [list EXCEPT ![FindIndex(list, a.clusterId)] = a]

(* line 73 *)
Removed(list, id) == SelectSeq(list, LAMBDA x : x.clusterId # id)

(* what an invocation of fetchOnce changes *)
Run == << signals, inflight, nStarted, pc, aborted, queued, vicSig, backend,
          weather, vic, feed, cacheList, cacheTotal, evtTotal, cacheUpdatedAt,
          outcome, result, refNow, pubLog, racing, fails >>

(* lines 66-67, 74-75: the list is stored and "cs:weather:list" is          *)
(* dispatched, which starts an invocation of fetchOnce when polling is     *)
(* started (alertsService.ts line 47)                                      *)
StoreWeather(list) ==
  /\ weatherCache' = [kind |-> "list", list |-> list]
  /\ IF listening THEN signals' = signals + 1 /\ Begin ELSE UNCHANGED Run

(* lines 61-68: upsertWeatherAlert(a) is called *)
upsertWeatherAlert(a) ==
  /\ call' = [fn |-> "upsertWeatherAlert", a |-> a, threw |-> ~StoredIsList]
  /\ IF StoredIsList
     THEN StoreWeather(Upserted(StoredList, a))
     ELSE UNCHANGED << weatherCache, Run >>
  /\ UNCHANGED << api, Pages, timer, listening, intervals, registered, visible,
                  coords, now >>

(* lines 70-76: removeWeatherAlert(clusterId) is called *)
removeWeatherAlert(clusterId) ==
  /\ call' = [fn |-> "removeWeatherAlert", clusterId |-> clusterId,
              threw |-> ~StoredIsList]
  /\ IF StoredIsList
     THEN StoreWeather(Removed(StoredList, clusterId))
     ELSE UNCHANGED << weatherCache, Run >>
  /\ UNCHANGED << api, Pages, timer, listening, intervals, registered, visible,
                  coords, now >>

(* lines 139, 144: severity and time to live in minutes of a risk text *)
SeverityOf(rt) == IF rt = "High Risk" THEN "high" ELSE "medium"
ttlMin(rt) == IF rt = "High Risk" THEN 30 ELSE 20

(* a publication that leaves the alert of the cell in place at Low Risk *)
PublishedListKeepLow(rt, lat, lon) ==
  IF rt = "Low Risk"
  THEN StoredList
  ELSE Upserted(StoredList,
                WeatherAlert("weather#" \o roundCell(lat, lon), SeverityOf(rt),
                             now + ttlMin(rt) * 60))

(* lines 126-161: the list publishWeatherFromRisk stores *)
PublishedList(rt, lat, lon) ==
  IF rt = "Low Risk"
  THEN Removed(StoredList, "weather#" \o roundCell(lat, lon))
  ELSE Upserted(StoredList,
                WeatherAlert("weather#" \o roundCell(lat, lon), SeverityOf(rt),
                             now + ttlMin(rt) * 60))

(* lines 176-177: the weather code of a response with the wind speed and   *)
(* precipitation given (0 when the response has none)                      *)
wxCode(wind, rain) == IF wind >= 12 THEN 7 ELSE IF rain >= 1 THEN 2 ELSE 1

(* lines 190-193 *)
RiskTextOf(level) ==
  IF level = "HIGH" THEN "High Risk"
  ELSE IF level = "MED" THEN "Medium Risk" ELSE "Low Risk"

(* line 166: fetchRisk(lat, lon) is called and awaits the risk API *)
fetchRisk(p) ==
  /\ riskPc[p] = "idle"
  /\ riskPc' = [riskPc EXCEPT ![p] = "fetch"]
  /\ UNCHANGED << Env, Run, Card, call, api >>

(* line 171: the risk API answers (any HTTP status) *)
RiskResponse(p) ==
  /\ riskPc[p] = "fetch"
  /\ riskPc' = [riskPc EXCEPT ![p] = "body"]
  /\ UNCHANGED << Env, Run, Card, call, api >>

(* lines 194-201: the catch block: the coordinates are broadcast (lines    *)
(* 112-119 store them under "cs.coords") and the risk text is set to LOW;  *)
(* the weather alerts are left as they are                                 *)
RiskCaught(p) ==
  /\ riskPc' = [riskPc EXCEPT ![p] = "idle"]
  /\ coords' = TRUE
  /\ call' = [fn |-> "fetchRisk", pos |-> p, ok |-> FALSE, riskText |-> "LOW"]
  /\ UNCHANGED << Run, Card, weatherCache, timer, listening, intervals,
                  registered, visible, now, api >>

(* line 171: the request is rejected by the network *)
RiskNetworkError(p) ==
  /\ riskPc[p] = "fetch"
  /\ RiskCaught(p)

(* lines 172-193: the body gives wind speed and precipitation (0 for one   *)
(* that is missing, and for both when the body is no JSON and data is {})  *)
(* and the clock gives the hour; the coordinates are                       *)
(* broadcast, the level is computed without a dataset and the weather      *)
(* alert of the cell is published                                          *)
RiskBody(p, wind, rain, hour) ==
  /\ riskPc[p] = "body"
  /\ LET wx == wxCode(wind, rain)
         level == computeRiskLevel(Ctx(hour, 3, 2, wx, Unset), NoData)
     IN IF StoredIsList
        THEN /\ riskPc' = [riskPc EXCEPT ![p] = "idle"]
             /\ coords' = TRUE
             /\ StoreWeather(PublishedList(RiskTextOf(level), p.lat, p.lon))
             /\ call' = [fn |-> "fetchRisk", pos |-> p, ok |-> TRUE,
                         riskText |-> level, weatherCode |-> wx, hour |-> hour,
                         at |-> now]
             /\ UNCHANGED << Card, timer, listening, intervals, registered,
                             visible, now, api >>
        ELSE RiskCaught(p)

(* the inputs of Home: wind speeds and precipitations around the           *)
(* thresholds of lines 176-177, an hour of the night and one of the day    *)
Winds == {0, 11, 12}
Rains == {0, 1}
HomeHours == {6, 12}
RiskTexts == {"High Risk", "Medium Risk"}
ClusterIds == {"weather#" \o roundCell(p.lat, p.lon) : p \in Positions}
WeatherAlerts ==
  {WeatherAlert(id, SeverityOf(rt), now + ttlMin(rt) * 60) :
     id \in ClusterIds, rt \in RiskTexts}

(* Home asks the risk of its positions in any order, the answers arrive in *)
(* any order; the two helpers are also called on their own; the clock runs *)
NextHome ==
  \/ \E p \in Positions : fetchRisk(p)
  \/ \E p \in Positions : RiskResponse(p)
  \/ \E p \in Positions : RiskNetworkError(p)
  \/ \E p \in Positions, wind \in Winds, rain \in Rains, hour \in HomeHours :
       RiskBody(p, wind, rain, hour)
  \/ \E a \in WeatherAlerts : upsertWeatherAlert(a)
  \/ \E id \in ClusterIds : removeWeatherAlert(id)
  \/ Tick

SpecHome == Init /\ [][NextHome]_vars

(* ===================== components/RiskHeaderCard.tsx =================== *)
MED_T == 40
HIGH_T == 70

(* the risk field of a response: a number, in tenths, or something that is *)
(* no finite number (missing, a text, NaN)                                 *)
NoNumber == [kind |-> "nan", tenths |-> 0]
Tenths(t) == [kind |-> "num", tenths |-> t]

(* a response of the risk API: ok ("none" when it is no boolean), risk and *)
(* riskText ("" when there is none); NoResponse is {}                      *)
Response(ok, risk, riskText) == [ok |-> ok, risk |-> risk, riskText |-> riskText]
NoResponse == Response("none", NoNumber, "")

(* lines 27-30: toInt(v, 0); Math.round rounds a half up *)
toInt(v) == IF v.kind = "num" THEN (v.tenths + 5) \div 10 ELSE 0

(* lines 33-34 *)
levelToLabel(lvl) ==
  IF lvl >= HIGH_T THEN "HIGH" ELSE IF lvl >= MED_T THEN "MED" ELSE "LOW"

(* lines 37-38 *)
levelToNotifySeverity(lvl) ==
  IF lvl >= HIGH_T THEN "high" ELSE IF lvl >= MED_T THEN "medium" ELSE "none"

(* line 76 *)
rank(s) == IF s = "none" THEN 0 ELSE IF s = "medium" THEN 1 ELSE 2

(* a test that also passes a severity equal to the last one notified *)
RisesOrStays(sev, last) == rank(sev) >= rank(last)

(* line 77 *)
Rises(sev, last) == rank(sev) > rank(last)

(* lines 65-67: the riskText of the response in upper case ("" when it has *)
(* none), or else the label of the level                                   *)
ToUpperCase(t) ==
  CASE t = "" -> ""
    [] t = "high" -> "HIGH"
    [] t = "Low Risk" -> "LOW RISK"
LabelOf(data) ==
  IF ToUpperCase(data.riskText) # "" THEN ToUpperCase(data.riskText)
  ELSE levelToLabel(toInt(data.risk))

(* line 61: ok is true unless the response says false *)
OkOf(data) == data.ok # "false"

(* the card has room for another notification in the model *)
NotesLeft == Len(notified) < MaxNotes

(* lines 60-84: applyRisk(data) without an error *)
applyRisk(data) ==
  LET lvl == toInt(data.risk)
      sev == levelToNotifySeverity(lvl)
  IN /\ riskLevelState' = lvl
     /\ riskTextState' = LabelOf(data)
     /\ status' = "Current risk level"
     /\ IF Rises(sev, lastNotified)
        THEN /\ notified' = Append(notified, sev)
             /\ lastNotified' = sev
        ELSE UNCHANGED << notified, lastNotified >>
     /\ call' = [fn |-> "applyRisk", data |-> data, lvl |-> lvl, threw |-> FALSE]

(* lines 151-156: the catch block of the card's fetchRisk *)
CardCaught(data) ==
  /\ status' = "Load failed"
  /\ riskLevelState' = 0
  /\ riskTextState' = "LOW"
  /\ call' = [fn |-> "applyRisk", data |-> data, lvl |-> 0, threw |-> TRUE]
  /\ UNCHANGED << notified, lastNotified >>

(* lines 137-145: the card's fetchRisk is called (by start, the interval   *)
(* or the position watch) and awaits the risk API                          *)
CardFetchRisk ==
  /\ cardPc = "idle"
  /\ cardPc' = "fetch"
  /\ UNCHANGED << Env, Run, riskPc, riskLevelState, riskTextState, status,
                  lastNotified, notified, call, api >>

(* line 141: the risk API answers; the text of the body is awaited *)
CardResponse ==
  /\ cardPc = "fetch"
  /\ cardPc' = "text"
  /\ UNCHANGED << Env, Run, riskPc, riskLevelState, riskTextState, status,
                  lastNotified, notified, call, api >>

(* line 141 or 146: the request or the body read is rejected *)
CardNetworkError ==
  /\ cardPc \in {"fetch", "text"}
  /\ cardPc' = "idle"
  /\ CardCaught(NoResponse)
  /\ UNCHANGED << Env, Run, riskPc, api >>

(* lines 146-150: the body parses to data (to {} when it is no JSON);      *)
(* applyRisk throws at line 62 when data.ok is false                       *)
CardBody(data) ==
  /\ cardPc = "text"
  /\ NotesLeft
  /\ cardPc' = "idle"
  /\ IF OkOf(data) THEN applyRisk(data) ELSE CardCaught(data)
  /\ UNCHANGED << Env, Run, riskPc, api >>

(* the responses of the risk API: ok true, false or not given; a risk      *)
(* around the two thresholds, with and without a half, or none; a          *)
(* riskText or none                                                        *)
Risks == {NoNumber} \cup {Tenths(t) : t \in {-5, 0, 394, 395, 400, 694, 695, 1000}}
Responses ==
  {Response(ok, risk, ""): ok \in {"true", "false", "none"}, risk \in Risks}
  \cup {Response("true", risk, t) : risk \in {Tenths(0), Tenths(1000)},
                                    t \in {"high", "Low Risk"}}

(* the card asks the risk again and again; one request at a time *)
NextCard ==
  \/ CardFetchRisk
  \/ CardResponse
  \/ CardNetworkError
  \/ \E data \in Responses : CardBody(data)

SpecCard == Init /\ [][NextCard]_vars

(* ================================ claims =============================== *)
Published(c) == outcome[c] = "published"
Done(c) == pc[c] = "done"
Range(s) == {s[i] : i \in 1..Len(s)}

(* the records invocation c gathered, in the order of line 182 *)
Gathered(c) == backend[c] \o weather[c] \o vic[c]
Unexpired(c) == FilterExpired(Gathered(c), refNow[c])

(* C1: when trigger b arrives while a still awaits a fetch, then once both *)
(* have finished (b neither stopped nor followed by another trigger) the   *)
(* published snapshot is the one b merged from its own records.  Stated    *)
(* for a cycle b whose backend request was answered: a rejected backend    *)
(* request is the case of C6.                                              *)
C1_Supersession ==
  \A a, b \in Cycles :
    (a \in racing[b] /\ b = nStarted /\ Done(a) /\ Done(b) /\ ~aborted[b]
       /\ "list" \notin fails[b])
      => /\ pubLog # << >>
         /\ pubLog[Len(pubLog)] = b
         /\ cacheList = Merge(Gathered(b), refNow[b])
         /\ cacheTotal = Len(cacheList)

(* C2: at most one aggregation cycle is in flight.  An invocation whose    *)
(* own token has been aborted is not counted, so that the microtask delay  *)
(* of the cancellation itself does not violate the claim.                  *)
C2_SingleFlight ==
  Cardinality({c \in Cycles : Suspended(c) /\ ~aborted[c]}) <= 1

(* C3: a cycle whose cancellation token has been signalled never publishes *)
C3_CancelledNeverPublishes ==
  \A c \in Cycles : aborted[c] => ~Published(c)

(* C4: snapshots are published in cycle-start order *)
C4_PublishedInStartOrder ==
  \A i, j \in 1..Len(pubLog) : i < j => pubLog[i] < pubLog[j]

(* C5: a cycle that was never cancelled has published once it has          *)
(* finished, whether its fetches succeeded or failed.  Stated for the      *)
(* cycles whose backend request was answered: a rejected backend request   *)
(* is the case of C6.                                                      *)
C5_UncancelledPublishes ==
  \A c \in Cycles :
    (Done(c) /\ ~aborted[c] /\ "list" \notin fails[c]) => Published(c)

(* C6: a cycle whose backend request or backend body failed takes the      *)
(* backend list as empty and publishes its weather and official records    *)
C6_BackendFailureStillPublishes ==
  \A c \in Cycles :
    (Done(c) /\ fails[c] \cap {"list", "listBody"} # {})
      => /\ Published(c)
         /\ result[c] = Merge(weather[c] \o vic[c], refNow[c])

(* C7: a cycle whose official-feed request failed (network or non-OK       *)
(* status) gets an empty official list and publishes the backend and       *)
(* weather-derived records it gathered                                     *)
C7_VicFailureStillPublishes ==
  \A c \in Cycles :
    "vic" \in fails[c]
      => /\ vic[c] = << >>
         /\ Published(c)
         /\ result[c] = Merge(backend[c] \o weather[c], refNow[c])
         /\ pubLog[Len(pubLog)] = c => (cacheList = result[c] /\ cacheTotal = Len(result[c]))

C7_Witness ==
  \E c \in Cycles :
    /\ "vic" \in fails[c]
    /\ Published(c)
    /\ \E r \in Range(cacheList) : r.src = "b"
    /\ \E r \in Range(cacheList) : r.src = "w"

(* C8: in every published snapshot the clusterId values (and the strings   *)
(* they convert to) are pairwise distinct                                  *)
C8_UniqueClusterIds ==
  \A c \in Cycles :
    Published(c) =>
      \A i, j \in 1..Len(result[c]) :
        i # j => /\ result[c][i].clusterId # result[c][j].clusterId
                 /\ Str(result[c][i].clusterId) # Str(result[c][j].clusterId)

(* a published cycle that gathered one id twice within the backend list    *)
(* and once more from another source, all of them unexpired                *)
C8_Witness ==
  \E c \in Cycles :
    /\ Published(c)
    /\ Len(result[c]) >= 2
    /\ \E i, j \in 1..Len(backend[c]) :
         /\ i < j
         /\ Str(backend[c][i].clusterId) = Str(backend[c][j].clusterId)
         /\ backend[c][i].clusterId # backend[c][j].clusterId
         /\ Num(backend[c][i].expiresAt) > refNow[c]
         /\ Num(backend[c][j].expiresAt) > refNow[c]
         /\ \E k \in 1..Len(weather[c]) :
              /\ Str(weather[c][k].clusterId) = Str(backend[c][i].clusterId)
              /\ Num(weather[c][k].expiresAt) > refNow[c]

(* C9: every record of a published snapshot has expiresAt strictly greater *)
(* than the cycle's reference now; a gathered record whose expiresAt is    *)
(* now, earlier or missing is not in it                                    *)
C9_NoExpiredPublished ==
  \A c \in Cycles :
    Published(c) =>
      /\ \A r \in Range(result[c]) : r.expiresAt # NoExp /\ r.expiresAt > refNow[c]
      /\ \A g \in Range(Gathered(c)) :
           (g.expiresAt = NoExp \/ g.expiresAt <= refNow[c]) => g \notin Range(result[c])

(* a published cycle that gathered a record expiring now, one that expired *)
(* earlier, one without expiresAt, and one that is kept                    *)
C9_Witness ==
  \E c \in Cycles :
    /\ Published(c)
    /\ result[c] # << >>
    /\ \E g \in Range(Gathered(c)) : g.expiresAt = refNow[c]
    /\ \E g \in Range(Gathered(c)) : g.expiresAt # NoExp /\ g.expiresAt < refNow[c]
    /\ \E g \in Range(Gathered(c)) : g.expiresAt = NoExp

SameId(c, k) == {g \in Range(Unexpired(c)) : Str(g.clusterId) = k}

(* C10: for every clusterId among the unexpired gathered records exactly   *)
(* one record is published, and it carries the largest expiresAt of the    *)
(* records with that id, whatever order they arrived in                    *)
C10_FreshestExpiryWins ==
  \A c \in Cycles :
    Published(c) =>
      \A g \in Range(Unexpired(c)) :
        Str(g.clusterId) # "" =>
          /\ Cardinality({i \in 1..Len(result[c]) :
                            Str(result[c][i].clusterId) = Str(g.clusterId)}) = 1
          /\ \E r \in Range(result[c]) :
               /\ r \in SameId(c, Str(g.clusterId))
               /\ \A h \in SameId(c, Str(g.clusterId)) :
                    Num(h.expiresAt) <= Num(r.expiresAt)

(* a published cycle whose unexpired records held one id twice, the        *)
(* larger expiresAt arriving first                                         *)
C10_Witness ==
  \E c \in Cycles :
    /\ Published(c)
    /\ \E i, j \in 1..Len(Unexpired(c)) :
         /\ i < j
         /\ Str(Unexpired(c)[i].clusterId) = Str(Unexpired(c)[j].clusterId)
         /\ Str(Unexpired(c)[i].clusterId) # ""
         /\ Num(Unexpired(c)[i].expiresAt) > Num(Unexpired(c)[j].expiresAt)

(* C11: every published snapshot is ordered by expiresAt descending: of    *)
(* two adjacent records the first has expiresAt at least the second's      *)
C11_SortedDescending ==
  \A c \in Cycles :
    Published(c) =>
      \A i \in 1..(Len(result[c]) - 1) :
        Num(result[c][i].expiresAt) >= Num(result[c][i + 1].expiresAt)

(* a published snapshot of two records or more that the sort reordered:    *)
(* a record gathered earlier stands after one gathered later               *)
C11_Witness ==
  \E c \in Cycles :
    /\ Published(c)
    /\ Len(result[c]) >= 2
    /\ result[c] # Dedup(Unexpired(c))
    /\ Num(result[c][1].expiresAt) > Num(result[c][Len(result[c])].expiresAt)

(* C12: publication is idempotent on the list a cycle gathered: merging    *)
(* the list concatenated with itself gives what the cycle published, and   *)
(* merging the published list again gives the same list                    *)
C12_MergeIdempotent ==
  \A c \in Cycles :
    Published(c) =>
      /\ Merge(Gathered(c) \o Gathered(c), refNow[c]) = result[c]
      /\ Merge(result[c], refNow[c]) = result[c]

(* a published snapshot with two records of equal expiresAt and different  *)
(* ids, whose gathered list held an id twice and an expired record         *)
C12_Witness ==
  \E c \in Cycles :
    /\ Published(c)
    /\ \E i \in 1..(Len(result[c]) - 1) :
         result[c][i].expiresAt = result[c][i + 1].expiresAt
    /\ Len(Dedup(Unexpired(c))) < Len(Unexpired(c))
    /\ Len(Unexpired(c)) < Len(Gathered(c))

Writes(c) == Cardinality({i \in 1..Len(pubLog) : pubLog[i] = c})

(* C13: the three keys are written only by a cycle that was not cancelled, *)
(* once per cycle and together: the cached list is the merged list of the  *)
(* last cycle that wrote (filtered, deduplicated, sorted), and the cached  *)
(* total and update time are those of that same cycle                      *)
C13_WrittenOnceBySuccessfulCycle ==
  /\ \A c \in Cycles : Writes(c) = IF Published(c) /\ ~aborted[c] THEN 1 ELSE 0
  /\ cacheList = Merge(cacheList, cacheUpdatedAt)
  /\ IF pubLog = << >>
     THEN cacheList = << >> /\ cacheTotal = 0 /\ cacheUpdatedAt = 0
     ELSE LET c == pubLog[Len(pubLog)] IN
            /\ cacheList = result[c]
            /\ cacheTotal = Len(result[c])
            /\ cacheUpdatedAt = refNow[c]

(* C14: after any sequence of cycles and alert-page refreshes the cached   *)
(* total is the number of records of the cached list, and so is the total  *)
(* of the last "cs:alerts" event                                           *)
C14_TotalIsListLength ==
  /\ cacheTotal = Len(cacheList)
  /\ evtTotal = Len(cacheList)

(* C15: a tick of the interval timer while the document is not visible    *)
(* starts no cycle: every step that is a timer tick starting a cycle is    *)
(* taken while the document is visible                                     *)
C15_NoTimerCycleWhileHidden == [][TimerTick => visible]_vars

(* C16: while polling is started every trigger (the start call, a timer    *)
(* tick, a might-have-changed or weather-list signal, a focus or           *)
(* visibility signal while visible) has started a cycle of its own by the  *)
(* end of the step that delivers it                                        *)
C16_EveryTriggerStartsCycle ==
  /\ nStarted = signals
  /\ \A c \in Cycles : c <= signals => pc[c] # "idle"

(* three triggers delivered, the second and the third while an earlier     *)
(* cycle was still waiting for a request, the document hidden at the end   *)
C16_Witness ==
  /\ signals = 3
  /\ racing[2] # {}
  /\ racing[3] # {}
  /\ ~visible
  /\ pc[3] = "fetchList"

(* invocation c has gone through lines 169-175 *)
HasReadWeather(c) ==
  \/ pc[c] \in {"fetchVic", "readVic", "vicNone"}
  \/ Done(c) /\ "list" \notin fails[c] /\ outcome[c] # "cancelled"

(* C17: a cycle that finds the weather cache absent, not JSON, or JSON     *)
(* that is no list takes the weather list as empty and goes on: when it    *)
(* has ended it has published the merge of its backend and official        *)
(* records                                                                 *)
C17_MalformedWeatherIsEmpty ==
  \A c \in Cycles :
    (HasReadWeather(c) /\ weatherCache.kind \in {"absent", "badjson", "notlist"}) =>
      /\ weather[c] = << >>
      /\ Done(c) => /\ Published(c)
                    /\ result[c] = Merge(backend[c] \o vic[c], refNow[c])

(* a cycle that found JSON that is no list in the weather cache and        *)
(* published a backend record and an official record                       *)
C17_Witness ==
  \E c \in Cycles :
    /\ Published(c)
    /\ weatherCache.kind = "notlist"
    /\ \E r \in Range(result[c]) : r.src = "b"
    /\ \E r \in Range(result[c]) : r.src = "v"

(* C18: a named feature of the feed a cycle read, of type Point,           *)
(* LineString, Polygon or MultiPolygon, whose distance to the location     *)
(* (containment-aware for the polygons) is at most NEARBY_M has a record   *)
(* in the snapshot the cycle published                                     *)
C18_NearFeatureOfAnyGeometryKept ==
  \A c \in Cycles :
    Published(c) =>
      \A f \in Range(feed[c]) :
        (/\ f.geom \in {"Point", "LineString", "Polygon", "MultiPolygon"}
         /\ f.dist <= NEARBY_M
         /\ f.named) =>
          \E r \in Range(result[c]) : r.clusterId = "vic#" \o VicId(f, refNow[c])

(* C19: two cycles that read the same features from the official feed      *)
(* gave them the same clusterIds                                           *)
C19_ClusterIdStableAcrossCycles ==
  \A c, d \in Cycles :
    (Published(c) /\ Published(d) /\ feed[c] = feed[d]) =>
      /\ Len(vic[c]) = Len(vic[d])
      /\ \A i \in 1..Len(vic[c]) : vic[c][i].clusterId = vic[d][i].clusterId

(* C20: every official record a cycle built has expiresAt = the second of  *)
(* the fetch + VIC_TTL, and is among the records the cycle's expiry filter *)
(* let through                                                             *)
C20_OfficialRecordOutlivesItsCycle ==
  \A c \in Cycles :
    Published(c) =>
      \A r \in Range(vic[c]) :
        /\ r.expiresAt = refNow[c] + VIC_TTL
        /\ r \in Range(Unexpired(c))
        /\ \E q \in Range(result[c]) : Str(q.clusterId) = Str(r.clusterId)

(* a cycle that published official records after the clock had advanced    *)
(* and whose expiry filter removed another record                          *)
C20_Witness ==
  \E c \in Cycles :
    /\ Published(c)
    /\ refNow[c] = MaxNow
    /\ Len(vic[c]) >= 2
    /\ Len(Unexpired(c)) < Len(Gathered(c))
    /\ \E q \in Range(result[c]) : q.src = "v"

(* C21: on every failure of the fetch (network error, status that is not  *)
(* OK, body that does not parse, timeout, cancellation by the caller)      *)
(* getVicEvents and getVicImpactAreas resolve to the empty list: their     *)
(* promise never rejects                                                   *)
C21_FeedHelpersNeverReject == api.pc # "rejected"

Scored == call.fn = "computeRiskLevel"

(* C22: without a dataset (absent, or an empty accident list) the level is *)
(* HIGH for wind (7) at any hour, for rain (2) HIGH when hour >= 18 or     *)
(* hour <= 6 and MED otherwise, and LOW for every other weather code and   *)
(* for none; so rain at 2 gives HIGH and rain at 12 gives MED              *)
C22_NoDatasetHeuristic ==
  (Scored /\ call.data \in DataNone) =>
    LET wx == call.ctx.weatherCode
        h  == call.ctx.hour
    IN /\ wx = 7 => call.out = "HIGH"
       /\ (wx = 2 /\ (h >= 18 \/ h <= 6)) => call.out = "HIGH"
       /\ (wx = 2 /\ h > 6 /\ h < 18) => call.out = "MED"
       /\ wx \notin {2, 7} => call.out = "LOW"
       /\ (wx = 2 /\ h = 2) => call.out = "HIGH"
       /\ (wx = 2 /\ h = 12) => call.out = "MED"

(* rain at 18 o'clock with an empty accident list: HIGH *)
C22_Witness ==
  /\ Scored
  /\ call.data = Data(<< >>, << >>, << >>)
  /\ call.ctx.weatherCode = 2
  /\ call.ctx.hour = 18
  /\ call.out = "HIGH"

ScoredData == Scored /\ call.data \notin DataNone

(* C23: on the dataset path, with m the matched count, the level is LOW    *)
(* exactly when m <= 172, MED exactly when 173 <= m <= 344 and HIGH        *)
(* exactly when m >= 345; m = 200 gives MED                                *)
C23_CategoriesOfMatchedCount ==
  ScoredData =>
    LET m == call.matched
    IN /\ call.out = "LOW" <=> m <= 172
       /\ call.out = "MED" <=> (173 <= m /\ m <= 344)
       /\ call.out = "HIGH" <=> m >= 345
       /\ m = 200 => call.out = "MED"

(* 200 matching records: MED *)
C23_Witness == ScoredData /\ call.matched = 200 /\ call.out = "MED"

(* the record is at a finite position within 250 m and agrees with the     *)
(* context in hour, month and day of the week                              *)
PlaceAndTime(ctx, acc) ==
  /\ acc.finite
  /\ acc.dist <= 250
  /\ acc.Accident_hour = ctx.hour
  /\ acc.Accident_month = ctx.month
  /\ acc.DAY_OF_WEEK = ctx.dow

(* both codes are present and differ *)
Mismatch(wanted, joined) == wanted # Unset /\ joined # Unset /\ wanted # joined

(* C24: a record that agrees in place and time is left out on the ground   *)
(* of weather only when context.weatherCode and its joined atmosphere code *)
(* are both present and differ, and likewise for roadSurfaceCode and the   *)
(* joined surface code; with no joined code, or no code in the context,    *)
(* the filter passes                                                       *)
C24_OnlyPositiveMismatchExcludes ==
  ScoredData =>
    \A i \in 1..Len(call.data.accidents) :
      LET acc == call.data.accidents[i]
          atm == IndexGet(call.data.atmosphere, acc.Accident_No)
          sf  == IndexGet(call.data.surface, acc.Accident_No)
      IN PlaceAndTime(call.ctx, acc) =>
           (call.counted[i] <=>
              /\ ~Mismatch(call.ctx.weatherCode, atm)
              /\ ~Mismatch(call.ctx.roadSurfaceCode, sf))

(* a record without joined codes is counted under a context that has both  *)
(* codes, and a second record is left out for its differing atmosphere     *)
(* code                                                                    *)
C24_Witness ==
  /\ ScoredData
  /\ call.ctx.weatherCode = 1
  /\ call.ctx.roadSurfaceCode = 1
  /\ Len(call.data.accidents) = 2
  /\ PlaceAndTime(call.ctx, call.data.accidents[2])
  /\ IndexGet(call.data.atmosphere, "A") = Unset
  /\ IndexGet(call.data.surface, "A") = Unset
  /\ call.counted[1]
  /\ IndexGet(call.data.atmosphere, "B") = 2
  /\ ~call.counted[2]

(* C25: a record is counted only if its coordinates are finite, it lies    *)
(* at most 250 m from the context position and its hour, month and day of  *)
(* the week equal the context's; a record at exactly 250 m that agrees in  *)
(* time is counted (no weather or surface code being asked for)            *)
C25_CountedOnlyInPlaceAndTime ==
  ScoredData =>
    \A i \in 1..Len(call.data.accidents) :
      LET acc == call.data.accidents[i]
      IN /\ call.counted[i] => PlaceAndTime(call.ctx, acc)
         /\ ( /\ PlaceAndTime(call.ctx, acc)
              /\ acc.dist = 250
              /\ call.ctx.weatherCode = Unset
              /\ call.ctx.roadSurfaceCode = Unset ) => call.counted[i]

(* the record at exactly 250 m is counted next to 172 others: 173 matches *)
C25_Witness ==
  /\ ScoredData
  /\ Len(call.data.accidents) = 2
  /\ call.data.accidents[2].dist = 250
  /\ call.counted[2]
  /\ call.matched = 173

Located == call.fn = "pointInsidePolygon"

(* C26: for the square ring (0,0), (0,1), (1,1), (1,0) pointInsidePolygon  *)
(* returns true for the query (0.5, 0.5) and false for the query (5, 5)    *)
C26_SquareInsideAndOutside ==
  (Located /\ call.polygon = Square) =>
    /\ (call.lat = One \div 2 /\ call.lon = One \div 2) => call.out = TRUE
    /\ (call.lat = 5 * One /\ call.lon = 5 * One) => call.out = FALSE

(* the centre of the square is found inside *)
C26_Witness ==
  /\ Located
  /\ call.polygon = Square
  /\ call.lat = One \div 2
  /\ call.lon = One \div 2
  /\ call.out = TRUE

(* C27: for a ring of fewer than three positions pointInsidePolygon        *)
(* returns false, whatever the query and wherever the positions are        *)
C27_DegenerateRingHoldsNoPoint ==
  (Located /\ Len(call.polygon) < 3) => call.out = FALSE

(* the distances from a query to the positions of a ring *)
VertexDistances(lat, lon, ring) ==
  {haversineM(lat, lon, ring[i][2], ring[i][1]) : i \in 1..Len(ring)}

(* d is the least of the distances ds, Infinity when there are none *)
IsLeast(d, ds) ==
  IF ds = {} THEN d = Infinity ELSE d \in ds /\ \A e \in ds : d <= e

(* C28: pointToPolygonDistanceM looks at the outer ring only: it returns 0 *)
(* whenever the point is inside the outer ring, also when it is inside a   *)
(* hole, and otherwise the least distance to a position of the outer ring; *)
(* the result is the one of the polygon without its holes                  *)
C28_OnlyOuterRingCounts ==
  call.fn = "pointToPolygonDistanceM" =>
    LET outer == IF call.coords = << >> THEN << >> ELSE call.coords[1]
    IN /\ pointInsidePolygon(call.lat, call.lon, outer) => call.out = 0
       /\ ~pointInsidePolygon(call.lat, call.lon, outer) =>
            IsLeast(call.out, VertexDistances(call.lat, call.lon, outer))
       /\ \A h \in Rings :
            call.out = pointToPolygonDistanceM(call.lat, call.lon, << outer, h >>)

(* the query is inside the box and inside its diamond-shaped hole: 0 *)
C28_Witness ==
  /\ call.fn = "pointToPolygonDistanceM"
  /\ call.coords = << Box, Diamond >>
  /\ pointInsidePolygon(call.lat, call.lon, Box)
  /\ pointInsidePolygon(call.lat, call.lon, Diamond)
  /\ call.out = 0

(* a geometry without any position of an outer ring: a MultiPolygon of no  *)
(* polygon or of polygons with no or an empty outer ring, a Polygon with   *)
(* no or an empty outer ring                                               *)
NoOuterRing(polygon) == polygon = << >> \/ polygon[1] = << >>

EmptyArea(g) ==
  \/ g.type = "Polygon" /\ NoOuterRing(g.coordinates)
  \/ /\ g.type = "MultiPolygon"
     /\ \A i \in 1..Len(g.coordinates) : NoOuterRing(g.coordinates[i])

(* C29: pointToMultiPolygonDistanceM returns the least of the distances to *)
(* its polygons and Infinity when it has none; a feature of the            *)
(* impact-area feed whose MultiPolygon is empty or whose polygon has an    *)
(* empty outer ring has distance Infinity and is skipped by the geofence   *)
C29_LeastOverPolygonsInfinityForNone ==
  /\ call.fn = "pointToMultiPolygonDistanceM" =>
       IsLeast(call.out, {pointToPolygonDistanceM(call.lat, call.lon, call.mp[i]) :
                            i \in 1..Len(call.mp)})
  /\ (call.fn = "fetchVicImpactAreas" /\ EmptyArea(call.g)) =>
       call.distM = Infinity /\ call.out = "skipped"

(* two polygons at different distances: the nearer one decides *)
C29_Witness ==
  /\ call.fn = "pointToMultiPolygonDistanceM"
  /\ Len(call.mp) = 2
  /\ pointToPolygonDistanceM(call.lat, call.lon, call.mp[1])
       > pointToPolygonDistanceM(call.lat, call.lon, call.mp[2])
  /\ call.out = pointToPolygonDistanceM(call.lat, call.lon, call.mp[2])
  /\ call.out > 0

(* C30: the distance is symmetric: the distance from a to b is the one     *)
(* from b to a, for distanceMeters and for haversineM                      *)
C30_DistanceSymmetric ==
  /\ call.fn = "distanceMeters" =>
       call.out = distanceMeters(call.lat2, call.lon2, call.lat1, call.lon1)
  /\ call.fn = "haversineM" =>
       call.out = haversineM(call.lat2, call.lon2, call.lat1, call.lon1)

(* from a position on the equator to one at 60 degrees, 60 degrees east *)
C30_Witness ==
  /\ call.fn = "distanceMeters"
  /\ call.lat1 = 0
  /\ call.lat2 = Sixty
  /\ call.lon1 # call.lon2
  /\ call.out > 0

(* polling is stopped: no timer and no listener (also before the first    *)
(* start)                                                                  *)
Stopped == ~timer /\ ~listening

(* C32: while polling is stopped no snapshot is written and no             *)
(* notification is emitted, also when a cycle was in flight at the stop    *)
C32_NoPublicationWhileStopped ==
  [][Stopped => (pubLog' = pubLog /\ cacheList' = cacheList
                  /\ cacheUpdatedAt' = cacheUpdatedAt)]_vars

(* C33: after any sequence of starts and stops at most one interval timer *)
(* and at most one registration of each listener is live, the ones the     *)
(* module knows of; after a stop none is, and no invocation of fetchOnce   *)
(* starts until the next start                                             *)
C33_OneTimerOneRegistration ==
  /\ [](/\ intervals <= 1
        /\ registered <= 1
        /\ timer <=> intervals = 1
        /\ listening <=> registered = 1
        /\ Stopped => (intervals = 0 /\ registered = 0))
  /\ [][(Stopped /\ nStarted' # nStarted) => (timer' /\ listening')]_vars

(* polling was started, has run a cycle or more and is stopped *)
C33_Witness == Stopped /\ nStarted >= 2 /\ intervals = 0 /\ registered = 0

(* the sequence s with the elements at i and j exchanged *)
Swapped(s, i, j) ==
  [k \in 1..Len(s) |-> IF k = i THEN s[j] ELSE IF k = j THEN s[i] ELSE s[k]]

(* C34: the published list is the same sequence of the same records when   *)
(* the records gathered arrive in another order (here: with any two of     *)
(* them exchanged)                                                         *)
C34_PublishedListIgnoresArrivalOrder ==
  \A c \in Cycles :
    Published(c) =>
      \A i, j \in 1..Len(Gathered(c)) :
        Merge(Swapped(Gathered(c), i, j), refNow[c]) = result[c]

(* LOW < MED < HIGH *)
LevelRank(l) == IF l = "LOW" THEN 0 ELSE IF l = "MED" THEN 1 ELSE 2

(* the rows of a list at the indices of S, in the order of the list *)
RECURSIVE PickFrom(_, _, _)
PickFrom(rows, S, i) ==
  IF i > Len(rows) THEN << >>
  ELSE (IF i \in S THEN << rows[i] >> ELSE << >>) \o PickFrom(rows, S, i + 1)

(* the level of the context of the call for the accidents at the indices   *)
(* of S, with the tables of the call                                       *)
LevelOfPart(S) ==
  computeRiskLevel(call.ctx,
                   Data(PickFrom(call.data.accidents, S, 1),
                        call.data.atmosphere, call.data.surface))

(* the accidents that are not at the indices of S pass no filter *)
RestUncounted(S) ==
  \A i \in 1..Len(call.data.accidents) : i \notin S => ~call.counted[i]

(* C35: for a fixed context the level does not fall when accident records  *)
(* are added to a dataset, the empty one included, and it does not change  *)
(* when the records added pass no filter                                   *)
C35_LevelMonotoneInDataset ==
  ScoredData =>
    \A S \in SUBSET (1..Len(call.data.accidents)) :
      /\ LevelRank(LevelOfPart(S)) <= LevelRank(call.out)
      /\ RestUncounted(S) => LevelOfPart(S) = call.out

(* C35 as amended: the same for a dataset that has accident records before *)
(* the addition                                                            *)
C35_LevelMonotoneInNonEmptyDataset ==
  ScoredData =>
    \A S \in SUBSET (1..Len(call.data.accidents)) :
      S # {} =>
        /\ LevelRank(LevelOfPart(S)) <= LevelRank(call.out)
        /\ RestUncounted(S) => LevelOfPart(S) = call.out

(* a record that passes the filters was added to a dataset with records    *)
(* and the level rose; one that passes none was added to another and the   *)
(* level stayed                                                            *)
C35_Witness ==
  /\ ScoredData
  /\ Len(call.data.accidents) = 2
  /\ \/ call.counted[2] /\ call.out = "MED" /\ LevelOfPart({1}) = "LOW"
     \/ ~call.counted[2] /\ call.out = "HIGH" /\ LevelOfPart({1}) = "HIGH"

(* invocation c called fetchVicIncidents (line 178) while no finite         *)
(* coordinates were cached                                                 *)
CalledVicNowhere(c) == ~coords /\ vicSig[c] # 0

(* C36: a cycle that reaches the official feed while no finite coordinates *)
(* are cached issues no request to it, gets no official record from it and *)
(* publishes the backend and weather-derived records                       *)
C36_NoCoordsNoOfficialRequest ==
  \A c \in Cycles :
    CalledVicNowhere(c) =>
      /\ pc[c] \in {"vicNone", "done"}
      /\ feed[c] = << >>
      /\ vic[c] = << >>
      /\ "vic" \notin fails[c]
      /\ Done(c) => /\ Published(c)
                    /\ result[c] = Merge(backend[c] \o weather[c], refNow[c])
                    /\ pubLog[Len(pubLog)] = c => cacheList = result[c]

(* such a cycle has published a backend and a weather-derived record *)
C36_Witness ==
  \E c \in Cycles :
    /\ CalledVicNowhere(c)
    /\ Published(c)
    /\ \E r \in Range(cacheList) : r.src = "b"
    /\ \E r \in Range(cacheList) : r.src = "w"

(* the weather alerts stored *)
Alerts == weatherCache.list

(* the last step was a call of the helper fn of Home *)
HomeStep(fn) == call' # call /\ call'.fn = fn

(* C37: the stored weather alerts, empty at the start and changed by       *)
(* upsertWeatherAlert and removeWeatherAlert only, hold one record per     *)
(* clusterId at most; an upsert of a clusterId that is present puts the    *)
(* record in the place of the old one and leaves the length and the other  *)
(* records alone (one that is absent is appended); a remove leaves every   *)
(* record of another clusterId where it was among those                    *)
C37_OneRecordPerClusterId ==
  /\ [](/\ weatherCache.kind = "list"
        /\ \A i, j \in 1..Len(Alerts) :
             i # j => Alerts[i].clusterId # Alerts[j].clusterId)
  /\ [][HomeStep("upsertWeatherAlert") =>
          IF \E i \in 1..Len(Alerts) : Alerts[i].clusterId = call'.a.clusterId
          THEN /\ Len(Alerts') = Len(Alerts)
               /\ \A i \in 1..Len(Alerts) :
                    Alerts'[i] = IF Alerts[i].clusterId = call'.a.clusterId
                                 THEN call'.a ELSE Alerts[i]
          ELSE Alerts' = Alerts \o << call'.a >>]_vars
  /\ [][HomeStep("removeWeatherAlert") =>
          /\ \A i \in 1..Len(Alerts') : Alerts'[i].clusterId # call'.clusterId
          /\ \E keep \in SUBSET (1..Len(Alerts)) :
               /\ \A i \in 1..Len(Alerts) :
                    i \in keep <=> Alerts[i].clusterId # call'.clusterId
               /\ Len(Alerts') = Cardinality(keep)
               /\ \A i \in keep :
                    Alerts'[Cardinality({j \in keep : j <= i})] = Alerts[i]]_vars

(* an upsert has replaced the first of two records *)
C37_Witness ==
  /\ call.fn = "upsertWeatherAlert"
  /\ Len(Alerts) = 2
  /\ Alerts[1] = call.a

(* "weather#" and the cell of a position: latitude and longitude floored   *)
(* to three decimals, for the positions of the model                       *)
CellIdOf(p) ==
  CASE p = Pos(-378136, 1449631) -> "weather#-37.814_144.963"
    [] p = Pos(-378139, 1449638) -> "weather#-37.814_144.963"
    [] p = Pos(-5, 5) -> "weather#-0.001_0.000"

(* the stored weather alerts of clusterId id *)
AlertsOf(id) == {i \in 1..Len(Alerts) : Alerts[i].clusterId = id}

(* the last call of Home was a fetchRisk that ended without an error *)
RiskFetched == call.fn = "fetchRisk" /\ call.ok

(* C31: when fetchRisk has ended without an error for a position, the      *)
(* stored weather alerts hold a record of clusterId "weather#" + cell       *)
(* exactly when the level computed is not LOW: for HIGH of severity high   *)
(* that expires 30 minutes later, for MED of severity medium that expires  *)
(* 20 minutes later; for LOW the record of the cell is gone                *)
C31_WeatherAlertIffNotLow ==
  RiskFetched =>
    /\ AlertsOf(CellIdOf(call.pos)) # {} <=> call.riskText # "LOW"
    /\ \A i \in AlertsOf(CellIdOf(call.pos)) :
         /\ call.riskText = "HIGH" =>
              (Alerts[i].severity = "high" /\ Alerts[i].expiresAt = call.at + 30 * 60)
         /\ call.riskText = "MED" =>
              (Alerts[i].severity = "medium" /\ Alerts[i].expiresAt = call.at + 20 * 60)

(* a fetchRisk has put a high alert in the place of the older alert of its *)
(* cell, which is followed by the alert of another cell                    *)
C31_Witness ==
  /\ RiskFetched
  /\ call.riskText = "HIGH"
  /\ call.at > 1
  /\ Len(Alerts) = 2
  /\ Alerts[1].clusterId = CellIdOf(call.pos)

(* the severity of a risk level by the medium and the high threshold *)
SeverityAt(lvl) ==
  IF lvl >= HIGH_T THEN "high" ELSE IF lvl >= MED_T THEN "medium" ELSE "none"

(* how often severity s was notified *)
Notified(s) == Cardinality({i \in 1..Len(notified) : notified[i] = s})

(* C38: the risk card notifies only in applyRisk and only when the         *)
(* severity of the response (none < medium < high) is strictly higher than *)
(* the last severity notified, which it then becomes; the last severity    *)
(* notified never falls, so medium and high are notified once at most      *)
C38_NotifiedOnlyOnRise ==
  /\ [][notified' # notified =>
          /\ call'.fn = "applyRisk" /\ ~call'.threw
          /\ notified' = Append(notified, SeverityAt(call'.lvl))
          /\ rank(SeverityAt(call'.lvl)) > rank(lastNotified)
          /\ lastNotified' = SeverityAt(call'.lvl)]_vars
  /\ [][rank(lastNotified') >= rank(lastNotified)]_vars
  /\ [](Notified("medium") <= 1 /\ Notified("high") <= 1 /\ Notified("none") = 0)

(* medium and high were notified, in that order, and a response of a lower *)
(* severity has been applied since                                         *)
C38_Witness ==
  /\ notified = << "medium", "high" >>
  /\ lastNotified = "high"
  /\ call.fn = "applyRisk"
  /\ ~call.threw
  /\ call.lvl < MED_T

====
